---------------------------- MODULE Spec2Model ----------------------------
(***************************************************************************)
(* H&G Abogados IA: signed download links (src/main.py) and the aggregated *)
(* jurisprudence query (src/providers/judicial_connectors.py).             *)
(*                                                                         *)
(* Text is a sequence of one-character strings, bytes are integers 0..255. *)
(* A JSON value is a tagged record (JInt, JStr, JBool); a dict is a        *)
(* function from keys (text) to JSON values.                               *)
(***************************************************************************)
EXTENDS Integers, Sequences, FiniteSets, TLC

(***************************************************************************)
(* Characters and bytes                                                    *)
(***************************************************************************)
\* Printable ASCII, code 32 (space) to 126 (~): Ascii[i] has code 31 + i
\* (code 96 is written <grave>; no text of the model contains it).
Ascii ==
    << " ", "!", "\"", "#", "$", "%", "&", "'", "(", ")", "*", "+", ",", "-", ".", "/" >>
    \o << "0", "1", "2", "3", "4", "5", "6", "7", "8", "9", ":", ";", "<", "=", ">", "?" >>
    \o << "@", "A", "B", "C", "D", "E", "F", "G", "H", "I", "J", "K", "L", "M", "N", "O" >>
    \o << "P", "Q", "R", "S", "T", "U", "V", "W", "X", "Y", "Z", "[", "\\", "]", "^", "_" >>
    \o << "<grave>", "a", "b", "c", "d", "e", "f", "g", "h", "i", "j", "k", "l", "m", "n", "o" >>
    \o << "p", "q", "r", "s", "t", "u", "v", "w", "x", "y", "z", "{", "|", "}", "~" >>

AsciiSet == { Ascii[i] : i \in 1..Len(Ascii) }

OrdTable == [c \in AsciiSet |-> 31 + (CHOOSE i \in 1..Len(Ascii) : Ascii[i] = c)]

\* ord(c)
Ord(c) == OrdTable[c]

Chr(n) == Ascii[n - 31]

IsPrintable(n) == n >= 32 /\ n <= 126

\* str.encode("utf-8") on ASCII text
Utf8Encode(s) == [i \in 1..Len(s) |-> Ord(s[i])]

\* bytes.decode("utf-8"): fails on a byte that is not ASCII text
Utf8Decode(b) ==
    IF \A i \in 1..Len(b) : IsPrintable(b[i])
    THEN [ok |-> TRUE,  text |-> [i \in 1..Len(b) |-> Chr(b[i])]]
    ELSE [ok |-> FALSE, text |-> <<>>]

\* str.lower()
LowerChar(c) == IF Ord(c) >= 65 /\ Ord(c) <= 90 THEN Chr(Ord(c) + 32) ELSE c

Lower(s) == [i \in 1..Len(s) |-> LowerChar(s[i])]

\* str.strip() for the blanks of the model (space)
RECURSIVE LStrip(_)
LStrip(s) == IF Len(s) > 0 /\ s[1] = " " THEN LStrip(Tail(s)) ELSE s

RECURSIVE RStripChar(_, _)
RStripChar(s, c) ==
    IF Len(s) > 0 /\ s[Len(s)] = c THEN RStripChar(SubSeq(s, 1, Len(s) - 1), c) ELSE s

Strip(s) == RStripChar(LStrip(s), " ")

\* lexicographic order of str by code point (the order sort_keys uses)
RECURSIVE StrLess(_, _)
StrLess(a, b) ==
    IF Len(b) = 0 THEN FALSE
    ELSE IF Len(a) = 0 THEN TRUE
    ELSE IF Ord(a[1]) < Ord(b[1]) THEN TRUE
    ELSE IF Ord(a[1]) > Ord(b[1]) THEN FALSE
    ELSE StrLess(Tail(a), Tail(b))

(***************************************************************************)
(* JSON values, json.dumps(separators=(",", ":"), sort_keys=True) and      *)
(* json.loads                                                              *)
(***************************************************************************)
JInt(n)  == [t |-> "int",  i |-> n, s |-> <<>>]
JStr(cs) == [t |-> "str",  i |-> 0, s |-> cs]
JBool(b) == [t |-> "bool", i |-> (IF b THEN 1 ELSE 0), s |-> <<>>]
JNull    == [t |-> "null", i |-> 0, s |-> <<>>]

EmptyDict == [k \in {} |-> JNull]

\* dict.get(key)
Get(d, k) == IF k \in DOMAIN d THEN d[k] ELSE JNull

\* Python truthiness of a JSON value
Truthy(v) ==
    CASE v.t = "int"  -> v.i # 0
      [] v.t = "str"  -> Len(v.s) > 0
      [] v.t = "bool" -> v.i = 1
      [] v.t = "list" -> v.i > 0
      [] OTHER        -> FALSE

Digits == << "0", "1", "2", "3", "4", "5", "6", "7", "8", "9" >>

RECURSIVE NatToStr(_)
NatToStr(n) ==
    IF n < 10 THEN << Digits[n + 1] >>
    ELSE NatToStr(n \div 10) \o << Digits[(n % 10) + 1] >>

\* str(int)
IntToStr(n) == IF n < 0 THEN << "-" >> \o NatToStr(0 - n) ELSE NatToStr(n)

K_true  == << "t", "r", "u", "e" >>
K_false == << "f", "a", "l", "s", "e" >>
K_null  == << "n", "u", "l", "l" >>

\* the strings of the model need no escaping
DumpValue(v) ==
    CASE v.t = "int"  -> IntToStr(v.i)
      [] v.t = "str"  -> << "\"" >> \o v.s \o << "\"" >>
      [] v.t = "bool" -> (IF v.i = 1 THEN K_true ELSE K_false)
      [] OTHER        -> K_null

MinKey(S) == CHOOSE k \in S : \A o \in S \ {k} : StrLess(k, o)

RECURSIVE DumpMembers(_, _)
DumpMembers(d, keys) ==
    IF keys = {} THEN <<>>
    ELSE LET k == MinKey(keys)
             rest == keys \ {k}
         IN  << "\"" >> \o k \o << "\"", ":" >> \o DumpValue(d[k])
             \o (IF rest = {} THEN <<>> ELSE << "," >> \o DumpMembers(d, rest))

JsonDumps(d) == << "{" >> \o DumpMembers(d, DOMAIN d) \o << "}" >>

\* ---- json.loads on the compact grammar json.dumps writes ----
ParseFail == [ok |-> FALSE, v |-> JNull, next |-> 0]

DigitSet == { Digits[i] : i \in 1..10 }

IsDigit(c) == c \in DigitSet

DigitVal(c) == Ord(c) - 48

\* index of the first character from i on that is not a digit
RECURSIVE DigitsEnd(_, _)
DigitsEnd(s, i) == IF i <= Len(s) /\ IsDigit(s[i]) THEN DigitsEnd(s, i + 1) ELSE i

RECURSIVE StrToNat(_, _, _, _)
StrToNat(s, i, j, acc) ==
    IF i >= j THEN acc ELSE StrToNat(s, i + 1, j, acc * 10 + DigitVal(s[i]))

\* index of the closing quote of the string that starts after position i - 1
RECURSIVE QuoteEnd(_, _)
QuoteEnd(s, i) ==
    IF i > Len(s) THEN 0 ELSE IF s[i] = "\"" THEN i ELSE QuoteEnd(s, i + 1)

HasAt(s, i, w) == i + Len(w) - 1 <= Len(s) /\ SubSeq(s, i, i + Len(w) - 1) = w

ParseString(s, i) ==
    IF i > Len(s) \/ s[i] # "\"" THEN ParseFail
    ELSE LET q == QuoteEnd(s, i + 1)
         IN  IF q = 0 THEN ParseFail
             ELSE [ok |-> TRUE, v |-> JStr(SubSeq(s, i + 1, q - 1)), next |-> q + 1]

ParseNumber(s, i) ==
    LET neg   == i <= Len(s) /\ s[i] = "-"
        start == IF neg THEN i + 1 ELSE i
        stop  == DigitsEnd(s, start)
        \* JSON forbids a leading zero in front of other digits
        lead0 == stop - start > 1 /\ s[start] = "0"
    IN  IF stop = start \/ lead0 THEN ParseFail
        ELSE LET n == StrToNat(s, start, stop, 0)
             IN  [ok |-> TRUE, v |-> JInt(IF neg THEN 0 - n ELSE n), next |-> stop]

ParseValue(s, i) ==
    IF i > Len(s) THEN ParseFail
    ELSE IF s[i] = "\"" THEN ParseString(s, i)
    ELSE IF HasAt(s, i, K_true)  THEN [ok |-> TRUE, v |-> JBool(TRUE),  next |-> i + 4]
    ELSE IF HasAt(s, i, K_false) THEN [ok |-> TRUE, v |-> JBool(FALSE), next |-> i + 5]
    ELSE IF HasAt(s, i, K_null)  THEN [ok |-> TRUE, v |-> JNull,        next |-> i + 4]
    ELSE ParseNumber(s, i)

\* members from position i, accumulated in acc; a repeated key keeps the last value
RECURSIVE ParseMembers(_, _, _)
ParseMembers(s, i, acc) ==
    LET k == ParseString(s, i)
    IN  IF ~k.ok \/ k.next > Len(s) \/ s[k.next] # ":" THEN [ok |-> FALSE, d |-> EmptyDict]
        ELSE LET v == ParseValue(s, k.next + 1)
             IN  IF ~v.ok \/ v.next > Len(s) THEN [ok |-> FALSE, d |-> EmptyDict]
                 ELSE LET acc2 == (k.v.s :> v.v) @@ acc
                      IN  IF s[v.next] = "}" /\ v.next = Len(s) THEN [ok |-> TRUE, d |-> acc2]
                          ELSE IF s[v.next] = "," THEN ParseMembers(s, v.next + 1, acc2)
                          ELSE [ok |-> FALSE, d |-> EmptyDict]

JsonLoads(s) ==
    IF Len(s) < 2 \/ s[1] # "{" THEN [ok |-> FALSE, d |-> EmptyDict]
    ELSE IF Len(s) = 2 /\ s[2] = "}" THEN [ok |-> TRUE, d |-> EmptyDict]
    ELSE ParseMembers(s, 2, EmptyDict)

(***************************************************************************)
(* base64 (binascii.b2a_base64 / a2b_base64, non-strict) and its urlsafe   *)
(* variant                                                                 *)
(***************************************************************************)
StdAlphabet ==
    << "A", "B", "C", "D", "E", "F", "G", "H", "I", "J", "K", "L", "M", "N", "O", "P" >>
    \o << "Q", "R", "S", "T", "U", "V", "W", "X", "Y", "Z", "a", "b", "c", "d", "e", "f" >>
    \o << "g", "h", "i", "j", "k", "l", "m", "n", "o", "p", "q", "r", "s", "t", "u", "v" >>
    \o << "w", "x", "y", "z", "0", "1", "2", "3", "4", "5", "6", "7", "8", "9", "+", "/" >>

StdSet == { StdAlphabet[i] : i \in 1..64 }

StdValTable == [c \in StdSet |-> (CHOOSE i \in 1..64 : StdAlphabet[i] = c) - 1]

IsStd(c) == c \in StdSet

StdVal(c) == StdValTable[c]

StdChar(v) == StdAlphabet[v + 1]

\* the translation tables of base64.urlsafe_b64encode / urlsafe_b64decode
ToUrlsafe(c)   == IF c = "+" THEN "-" ELSE IF c = "/" THEN "_" ELSE c
FromUrlsafe(c) == IF c = "-" THEN "+" ELSE IF c = "_" THEN "/" ELSE c

Identity(c) == c

ByteAt(b, j) == IF j <= Len(b) THEN b[j] ELSE 0

\* binascii.b2a_base64: three bytes make four characters, "=" pads the last
\* group. Character i of the output, from the bytes of its group, then
\* translated by tr.
B64Char(b, i, tr(_)) ==
    LET g == (i - 1) \div 4
        r == (i - 1) % 4
        b1 == ByteAt(b, 3 * g + 1)
        b2 == ByteAt(b, 3 * g + 2)
        b3 == ByteAt(b, 3 * g + 3)
    IN  CASE r = 0 -> tr(StdChar(b1 \div 4))
          [] r = 1 -> tr(StdChar((b1 % 4) * 16 + b2 \div 16))
          [] r = 2 -> (IF 3 * g + 2 > Len(b) THEN "=" ELSE tr(StdChar((b2 % 16) * 4 + b3 \div 64)))
          [] OTHER -> (IF 3 * g + 3 > Len(b) THEN "=" ELSE tr(StdChar(b3 % 64)))

b64encode(b) == [i \in 1..(4 * ((Len(b) + 2) \div 3)) |-> B64Char(b, i, Identity)]

urlsafe_b64encode(b) == [i \in 1..(4 * ((Len(b) + 2) \div 3)) |-> B64Char(b, i, ToUrlsafe)]

a2bError == [ok |-> FALSE, bytes |-> <<>>]

\* binascii.a2b_base64 with strict_mode off, as its loop computes it:
\* characters outside the alphabet are skipped; a "=" met when the current
\* group holds 2 or 3 characters, and which with the "=" seen since the last
\* alphabet character completes the group, ends the parse (the rest of the
\* input is never read); the left-over bits of a last group of 2 or 3
\* characters are dropped; an incomplete group at the end of the input is an
\* error (binascii.Error).
DataBefore(s, i) == Cardinality({ j \in 1..(i - 1) : IsStd(s[j]) })

PadsUpTo(s, i) ==
    Cardinality({ j \in 1..i : s[j] = "=" /\ \A k \in j..i : ~IsStd(s[k]) })

PadStop(s, i) ==
    /\ s[i] = "="
    /\ DataBefore(s, i) % 4 >= 2
    /\ (DataBefore(s, i) % 4) + PadsUpTo(s, i) >= 4

a2b_base64(s) ==
    LET stops == { i \in 1..Len(s) : PadStop(s, i) }
        done  == stops # {}
        stop  == IF done THEN CHOOSE i \in stops : \A o \in stops : i <= o ELSE Len(s) + 1
        data  == SelectSeq(SubSeq(s, 1, stop - 1), IsStd)
        n     == Len(data)
        v(i)  == StdVal(data[i])
        nbytes == (n \div 4) * 3 + (IF n % 4 = 2 THEN 1 ELSE IF n % 4 = 3 THEN 2 ELSE 0)
        byte(j) ==
            LET g == (j - 1) \div 3
                r == (j - 1) % 3
            IN  CASE r = 0 -> v(4 * g + 1) * 4 + v(4 * g + 2) \div 16
                  [] r = 1 -> (v(4 * g + 2) % 16) * 16 + v(4 * g + 3) \div 4
                  [] OTHER -> (v(4 * g + 3) % 4) * 64 + v(4 * g + 4)
    IN  IF ~done /\ n % 4 # 0 THEN a2bError
        ELSE [ok |-> TRUE, bytes |-> [j \in 1..nbytes |-> byte(j)]]

urlsafe_b64decode(s) == a2b_base64([i \in 1..Len(s) |-> FromUrlsafe(s[i])])

Repeat(c, n) == [i \in 1..n |-> c]

\* main.py:99
_b64url_encode(data) == RStripChar(urlsafe_b64encode(data), "=")

\* _b64url_decode without the padding it strips when encoding
_b64url_decode_nopad(data) == urlsafe_b64decode(data)

\* main.py:103; -len(data) % 4 is in 0..3
_b64url_decode(data) ==
    LET padding == Repeat("=", (4 - (Len(data) % 4)) % 4)
    IN  urlsafe_b64decode(data \o padding)

(***************************************************************************)
(* HMAC-SHA256, symbolically: the hex digest of (key, msg) is the term     *)
(* hmac(key, msg); two digests are equal exactly when key and message are. *)
(* A signature presented by a client is such a digest, some other ASCII    *)
(* text, or text with a non-ASCII character.                               *)
(***************************************************************************)
hmac_hexdigest(key, msg) == [kind |-> "hmac", key |-> key, msg |-> msg]

AsciiJunk == [kind |-> "ascii",    key |-> <<>>, msg |-> <<>>]
NonAscii  == [kind |-> "nonascii", key |-> <<>>, msg |-> <<>>]
NoSig     == [kind |-> "none",     key |-> <<>>, msg |-> <<>>]

\* hmac.compare_digest(str, str): TypeError when a string is not ASCII
compare_digest(a, b) ==
    IF a.kind = "nonascii" \/ b.kind = "nonascii"
    THEN [ok |-> FALSE, eq |-> FALSE]
    ELSE [ok |-> TRUE,  eq |-> (a = b)]

(***************************************************************************)
(* Tokens. A token string either has no "." (dot = FALSE, body is the      *)
(* whole string) or splits at its last "." into body and sig, which is     *)
(* what token.rsplit(".", 1) returns.                                      *)
(***************************************************************************)
NoToken == [dot |-> FALSE, body |-> <<>>, sig |-> NoSig]

\* main.py:108
_sign_download_payload(payload, secret) ==
    LET body == Utf8Encode(JsonDumps(payload))
        sig  == hmac_hexdigest(Utf8Encode(secret), body)
    IN  [dot |-> TRUE, body |-> _b64url_encode(body), sig |-> sig]

\* Results of a handler or helper: a returned value, an HTTPException, or an
\* exception nobody catches (the server answers 500 Internal Server Error).
Returned(p)            == [kind |-> "ok", status |-> 200, detail |-> "", payload |-> p]
HTTPException(code, d) == [kind |-> "http", status |-> code, detail |-> d, payload |-> EmptyDict]
Unhandled(exc)         == [kind |-> "unhandled", status |-> 500, detail |-> exc, payload |-> EmptyDict]

\* Resolution of the clock: time.time() is clock / TicksPerSecond seconds.
TicksPerSecond == 2

\* int(time.time())
IntTime(clock) == clock \div TicksPerSecond

\* time.time() > float(exp)
TimeAfter(clock, exp) == clock > exp * TicksPerSecond

\* main.py:124-126: "if exp and time.time() > float(exp)"
IsExpired(payload, clock) ==
    LET exp == Get(payload, << "e", "x", "p" >>)
    IN  Truthy(exp) /\ TimeAfter(clock, exp.i)

\* main.py:123-127: json.loads, then the expiry test
VerifyPayload(js, clock) ==
    IF ~js.ok THEN Unhandled("JSONDecodeError")
    ELSE IF IsExpired(js.d, clock) THEN HTTPException(401, "Token de descarga expirado.")
    ELSE Returned(js.d)

\* main.py:120-123: the digest comparison, then body.decode("utf-8")
VerifySignature(cmp, txt, clock) ==
    IF ~cmp.ok THEN Unhandled("TypeError")
    ELSE IF ~cmp.eq THEN HTTPException(401, "Token de descarga invalido.")
    ELSE IF ~txt.ok THEN Unhandled("UnicodeDecodeError")
    ELSE VerifyPayload(JsonLoads(txt.text), clock)

\* main.py:118-120: the decoded body and the digest expected for it
VerifyBody(sig, dec, secret, clock) ==
    IF ~dec.ok THEN Unhandled("binascii.Error")
    ELSE VerifySignature(compare_digest(sig, hmac_hexdigest(Utf8Encode(secret), dec.bytes)),
                         Utf8Decode(dec.bytes), clock)

\* main.py:114
_verify_download_token(token, secret, clock) ==
    IF ~token.dot THEN HTTPException(400, "Token de descarga invalido.")
    ELSE VerifyBody(token.sig, _b64url_decode(token.body), secret, clock)

(***************************************************************************)
(* The artifact link service of main.py: two mint endpoints, two resolve   *)
(* endpoints.                                                              *)
(***************************************************************************)
K_exp                == << "e", "x", "p" >>
K_norma_id           == << "n", "o", "r", "m", "a", "_", "i", "d" >>
K_formato            == << "f", "o", "r", "m", "a", "t", "o" >>
K_concordancias      == << "c", "o", "n", "c", "o", "r", "d", "a", "n", "c", "i", "a", "s" >>
K_ttl_seconds        == << "t", "t", "l", "_", "s", "e", "c", "o", "n", "d", "s" >>
K_id_juicio          == << "i", "d", "_", "j", "u", "i", "c", "i", "o" >>
K_idJuicio           == << "i", "d", "J", "u", "i", "c", "i", "o" >>
K_numero_causa       == << "n", "u", "m", "e", "r", "o", "_", "c", "a", "u", "s", "a" >>
K_max_actuaciones    == << "m", "a", "x", "_", "a", "c", "t", "u", "a", "c", "i", "o", "n", "e", "s" >>
K_idMovimientoJuicioIncidente ==
    << "i", "d", "M", "o", "v", "i", "m", "i", "e", "n", "t", "o",
       "J", "u", "i", "c", "i", "o", "I", "n", "c", "i", "d", "e", "n", "t", "e" >>
K_idIncidenteJudicatura ==
    << "i", "d", "I", "n", "c", "i", "d", "e", "n", "t", "e",
       "J", "u", "d", "i", "c", "a", "t", "u", "r", "a" >>
K_idJudicatura       == << "i", "d", "J", "u", "d", "i", "c", "a", "t", "u", "r", "a" >>
K_incidente          == << "i", "n", "c", "i", "d", "e", "n", "t", "e" >>
K_nombreJudicatura   ==
    << "n", "o", "m", "b", "r", "e", "J", "u", "d", "i", "c", "a", "t", "u", "r", "a" >>

S_pdf  == << "p", "d", "f" >>
S_word == << "w", "o", "r", "d" >>
S_html == << "h", "t", "m", "l" >>

\* main.py:169
Formatos == { S_pdf, S_word, S_html }

\* main.py:263-269
SatjeOptionalKeys ==
    << K_idMovimientoJuicioIncidente, K_idIncidenteJudicatura, K_idJudicatura,
       K_incidente, K_nombreJudicatura >>

\* main.py:173, 251: the default of ttl_seconds
DefaultTtl == 600

\* main.py:245: the default of max_actuaciones
DefaultMaxActuaciones == 200

\* int(x) of a JSON value: a number, a boolean, or a string of decimal digits
\* with an optional sign; anything else raises
IsIntText(s) ==
    LET start == IF Len(s) > 0 /\ s[1] = "-" THEN 2 ELSE 1
    IN  Len(s) >= start /\ \A i \in start..Len(s) : IsDigit(s[i])

IntOf(v) ==
    CASE v.t = "int"  -> [ok |-> TRUE, i |-> v.i]
      [] v.t = "bool" -> [ok |-> TRUE, i |-> v.i]
      [] v.t = "str" /\ IsIntText(v.s) ->
            [ok |-> TRUE,
             i  |-> IF v.s[1] = "-" THEN 0 - StrToNat(v.s, 2, Len(v.s) + 1, 0)
                    ELSE StrToNat(v.s, 1, Len(v.s) + 1, 0)]
      [] OTHER -> [ok |-> FALSE, i |-> 0]

\* str(x) of a JSON value
StrOf(v) ==
    CASE v.t = "int"  -> IntToStr(v.i)
      [] v.t = "str"  -> v.s
      [] v.t = "bool" -> (IF v.i = 1 THEN << "T", "r", "u", "e" >> ELSE << "F", "a", "l", "s", "e" >>)
      [] OTHER        -> << "N", "o", "n", "e" >>

\* "a or b" on JSON values
Or(a, b) == IF Truthy(a) THEN a ELSE b

\* a dict from a set of <<key, value>> pairs with distinct keys
DictOf(pairs) ==
    [k \in { pr[1] : pr \in pairs } |-> (CHOOSE pr \in pairs : pr[1] = k)[2]]

\* copy of the keys of SatjeOptionalKeys that are present and not None (main.py:263-271)
RECURSIVE CopyOptional(_, _, _)
CopyOptional(payload, acc, n) ==
    IF n > Len(SatjeOptionalKeys) THEN acc
    ELSE LET key == SatjeOptionalKeys[n]
         IN  CopyOptional(payload,
                          IF Get(payload, key) # JNull THEN (key :> payload[key]) @@ acc ELSE acc,
                          n + 1)

\* a secret check that never fires
SecretMissing_never(secret) == FALSE

\* main.py:175, 198, 253, 285: "if not secret"
SecretMissing(secret) == secret = <<>>

\* Result of a mint handler: the response and, when one is issued, the token
MintResult(r, exp, token, payload) ==
    [kind |-> r.kind, status |-> r.status, detail |-> r.detail,
     exp |-> exp, token |-> token, payload |-> payload]

MintFailed(r) == MintResult(r, 0, NoToken, EmptyDict)

\* main.py:158 POST /fielweb/download_link
fielweb_download_link(payload, secret, clock) ==
    LET norma_id == Get(payload, K_norma_id) IN
    IF norma_id = JNull THEN MintFailed(HTTPException(400, "Debe proporcionar 'norma_id'."))
    ELSE IF ~IntOf(norma_id).ok THEN MintFailed(HTTPException(400, "norma_id invalido."))
    ELSE LET formato == Lower(Or(Get(payload, K_formato), JStr(S_pdf)).s) IN
    IF formato \notin Formatos
    THEN MintFailed(HTTPException(400, "formato debe ser pdf, word o html."))
    ELSE LET concordancias == Truthy(Get(payload, K_concordancias))
             ttl == IntOf(Or(Get(payload, K_ttl_seconds), JInt(DefaultTtl))) IN
    IF ~ttl.ok THEN MintFailed(Unhandled("ValueError"))
    ELSE IF SecretMissing(secret)
    THEN MintFailed(HTTPException(500, "DOWNLOAD_TOKEN_SECRET no configurado."))
    ELSE LET exp == IntTime(clock) + ttl.i
             token_payload ==
                 (K_norma_id :> JInt(IntOf(norma_id).i)) @@ (K_formato :> JStr(formato))
                 @@ (K_concordancias :> JBool(concordancias)) @@ (K_exp :> JInt(exp))
         IN  MintResult(Returned(EmptyDict), exp,
                        _sign_download_payload(token_payload, secret), token_payload)

\* main.py:238 POST /satje/export_pdf_link
satje_export_pdf_link(payload, secret, clock) ==
    LET id_juicio == Or(Get(payload, K_id_juicio),
                        Or(Get(payload, K_idJuicio), Get(payload, K_numero_causa))) IN
    IF ~Truthy(id_juicio)
    THEN MintFailed(HTTPException(400, "Debe proporcionar id_juicio o numero_causa."))
    ELSE LET maxact == IntOf(Or(Get(payload, K_max_actuaciones), JInt(DefaultMaxActuaciones))) IN
    IF ~maxact.ok THEN MintFailed(HTTPException(400, "max_actuaciones invalido."))
    ELSE LET max_actuaciones == IF maxact.i < 1 THEN 1 ELSE maxact.i
             ttl == IntOf(Or(Get(payload, K_ttl_seconds), JInt(DefaultTtl))) IN
    IF ~ttl.ok THEN MintFailed(Unhandled("ValueError"))
    ELSE IF SecretMissing(secret)
    THEN MintFailed(HTTPException(500, "DOWNLOAD_TOKEN_SECRET no configurado."))
    ELSE LET exp == IntTime(clock) + ttl.i
             base == (K_id_juicio :> JStr(StrOf(id_juicio)))
                     @@ (K_max_actuaciones :> JInt(max_actuaciones)) @@ (K_exp :> JInt(exp))
             token_payload == CopyOptional(payload, base, 1)
         IN  MintResult(Returned(EmptyDict), exp,
                        _sign_download_payload(token_payload, secret), token_payload)

\* A connector invocation made by a resolve handler; upstream tells whether
\* the connector reaches its login / upstream HTTP requests.
NoCall == [fn |-> "none", args |-> EmptyDict, upstream |-> FALSE]

\* Result of a resolve handler
ResolveResult(r, verified, call, media_type) ==
    [kind |-> r.kind, status |-> r.status, detail |-> r.detail, payload |-> r.payload,
     verified |-> verified, call |-> call, media_type |-> media_type]

\* What a connector can answer: an exception, None / an empty dict, an
\* {"error": ...} dict, or the file (with or without a content type).
ConnectorOutcomes == { "raise", "none", "error", "file", "file_untyped" }

\* main.py:222-229
DefaultContentType(formato) ==
    IF formato = S_pdf THEN "application/pdf"
    ELSE IF formato = S_word THEN "application/msword"
    ELSE "text/html; charset=utf-8"

\* a resolve handler about to call its connector
Calling(payload, call) ==
    [kind |-> "call", status |-> 0, detail |-> "", payload |-> payload,
     verified |-> TRUE, call |-> call, media_type |-> ""]

\* the answer of a resolve handler after its connector was called
Answer(pending, r, media_type) ==
    ResolveResult([r EXCEPT !.payload = pending.payload], TRUE, pending.call, media_type)

\* main.py:203-207: int(norma_id) is evaluated inside the try, before the
\* connector runs
FielwebCall(payload, norma_id) ==
    IF ~norma_id.ok
    THEN ResolveResult([HTTPException(500, "Error FielWeb descarga") EXCEPT !.payload = payload],
                       TRUE, NoCall, "")
    ELSE Calling(payload,
                 [fn |-> "descargar_norma_archivo",
                  args |-> (K_norma_id :> JInt(norma_id.i))
                           @@ (K_formato :> Or(Get(payload, K_formato), JStr(S_pdf)))
                           @@ (K_concordancias :> JBool(Truthy(Get(payload, K_concordancias)))),
                  upstream |-> TRUE])

\* main.py:202
FielwebVerified(v) ==
    IF v.kind # "ok" THEN ResolveResult(v, FALSE, NoCall, "")
    ELSE FielwebCall(v.payload, IntOf(Get(v.payload, K_norma_id)))

\* main.py:194-207: GET /fielweb/download up to the call of descargar_norma_archivo
fielweb_download_call(token, secret, clock, loaded) ==
    IF ~loaded
    THEN ResolveResult(HTTPException(500, "Conector FielWeb no disponible."), FALSE, NoCall, "")
    ELSE IF SecretMissing(secret)
    THEN ResolveResult(HTTPException(500, "DOWNLOAD_TOKEN_SECRET no configurado."), FALSE, NoCall, "")
    ELSE FielwebVerified(_verify_download_token(token, secret, clock))

\* main.py:208-233: what the handler makes of the connector's answer
fielweb_download_answer(pending, outcome) ==
    IF pending.kind # "call" THEN pending
    ELSE CASE outcome = "raise" -> Answer(pending, HTTPException(500, "Error FielWeb descarga"), "")
           [] outcome = "none"  -> Answer(pending, HTTPException(502, "No se pudo descargar el archivo."), "")
           [] outcome = "error" -> Answer(pending, HTTPException(502, "result.error"), "")
           [] outcome = "file"  -> Answer(pending, Returned(pending.payload), "result.content_type")
           [] OTHER             -> Answer(pending, Returned(pending.payload),
                                          DefaultContentType(pending.call.args[K_formato].s))

\* main.py:193 GET /fielweb/download
fielweb_download(token, secret, clock, loaded, outcome) ==
    fielweb_download_answer(fielweb_download_call(token, secret, clock, loaded), outcome)

\* a connector that goes upstream whatever the payload holds
SatjeHasId_always(payload) == TRUE

\* judicial_connectors.py:1557-1559: without an id the connector answers an
\* error dict before any upstream request
SatjeHasId(payload) ==
    Truthy(Or(Get(payload, K_idJuicio), Or(Get(payload, K_id_juicio), Get(payload, K_numero_causa))))

\* main.py:290-294
SatjeVerified(v) ==
    IF v.kind # "ok" THEN ResolveResult(v, FALSE, NoCall, "")
    ELSE Calling(v.payload, [fn |-> "exportar_pdf_satje", args |-> v.payload,
                             upstream |-> SatjeHasId(v.payload)])

\* main.py:281-294: GET /satje/export_pdf up to the call of exportar_pdf_satje
satje_export_pdf_call(token, secret, clock, loaded) ==
    IF ~loaded
    THEN ResolveResult(HTTPException(500, "Conector SATJE no disponible."), FALSE, NoCall, "")
    ELSE IF SecretMissing(secret)
    THEN ResolveResult(HTTPException(500, "DOWNLOAD_TOKEN_SECRET no configurado."), FALSE, NoCall, "")
    ELSE SatjeVerified(_verify_download_token(token, secret, clock))

\* main.py:295-302: what the handler makes of the connector's answer
satje_export_pdf_answer(pending, outcome) ==
    IF pending.kind # "call" THEN pending
    ELSE IF ~pending.call.upstream THEN Answer(pending, HTTPException(502, "result.error"), "")
    ELSE CASE outcome = "raise" -> Answer(pending, HTTPException(500, "Error SATJE PDF"), "")
           [] outcome = "none"  -> Answer(pending, HTTPException(502, "No se pudo generar el PDF."), "")
           [] outcome = "error" -> Answer(pending, HTTPException(502, "result.error"), "")
           [] OTHER             -> Answer(pending, Returned(pending.payload), "application/pdf")

\* main.py:280 GET /satje/export_pdf
satje_export_pdf(token, secret, clock, loaded, outcome) ==
    satje_export_pdf_answer(satje_export_pdf_call(token, secret, clock, loaded), outcome)

(***************************************************************************)
(* Requests the model sends                                                *)
(***************************************************************************)
MaxSeconds == 3
MaxTtl == 1
MaxNegTtl == 1

\* the values of ttl_seconds a caller sends
TtlInputs == { JInt(n) : n \in (0 - MaxNegTtl)..MaxTtl }

S_42     == << "4", "2" >>
S_x      == << "x" >>
S_HTML   == << "H", "T", "M", "L" >>
S_exe    == << "e", "x", "e" >>
S_causa  == << "1", "7", "2", "3", "0", "-", "2", "0", "1", "9" >>

WithTtl(d) == { d } \cup { (K_ttl_seconds :> t) @@ d : t \in TtlInputs }

\* bodies of POST /fielweb/download_link
FielwebLinkInputs ==
    WithTtl(K_norma_id :> JStr(S_42))
    \cup WithTtl((K_norma_id :> JInt(7)) @@ (K_formato :> JStr(S_word)))
    \cup { EmptyDict,
           K_norma_id :> JStr(S_x),
           (K_norma_id :> JInt(7)) @@ (K_formato :> JStr(S_exe)),
           (K_norma_id :> JInt(7)) @@ (K_formato :> JStr(S_HTML)) @@ (K_concordancias :> JBool(TRUE)) }

\* bodies of POST /satje/export_pdf_link
SatjeLinkInputs ==
    WithTtl(K_id_juicio :> JStr(S_causa))
    \cup { EmptyDict,
           K_id_juicio :> JStr(<<>>),
           (K_idJuicio :> JInt(5)) @@ (K_incidente :> JInt(1)) @@ (K_max_actuaciones :> JInt(-1)),
           (K_numero_causa :> JStr(S_causa)) @@ (K_max_actuaciones :> JStr(S_x)) }

\* the values of the environment variable DOWNLOAD_TOKEN_SECRET
SecretEnv == { <<>>, << " " >>, << "k", " " >> }

\* a key that is not the server's
OtherKey == << "z" >>

\* the next character of the urlsafe alphabet
NextChar(c) ==
    IF IsStd(FromUrlsafe(c)) THEN ToUrlsafe(StdChar((StdVal(FromUrlsafe(c)) + 1) % 64)) ELSE "A"

\* token strings a client can make from a token it was given: one character
\* of the payload part replaced, a character added to it, another signature,
\* the signature of a payload with a later expiry, no "." at all
TamperedBody(tok) ==
    { [tok EXCEPT !.body = [@ EXCEPT ![i] = c]] :
          <<i, c>> \in { <<1, NextChar(tok.body[1])>>,
                         <<Len(tok.body), NextChar(tok.body[Len(tok.body)])>>,
                         <<Len(tok.body), "!">>,
                         <<Len(tok.body), "+">> } }
    \cup { [tok EXCEPT !.body = @ \o << c >>] : c \in { "!", "=", "A", "." } }

TamperedSig(tok, payload) ==
    { [tok EXCEPT !.sig = sg] :
          sg \in { AsciiJunk, NonAscii,
                   hmac_hexdigest(Utf8Encode(OtherKey), Utf8Encode(JsonDumps(payload))) } }
    \cup { [tok EXCEPT !.body =
               _b64url_encode(Utf8Encode(JsonDumps([payload EXCEPT ![K_exp] = JInt(@.i + 1)])))],
           _sign_download_payload(payload, OtherKey),
           [tok EXCEPT !.dot = FALSE] }

Tampered(tok, payload) == (TamperedBody(tok) \cup TamperedSig(tok, payload)) \ { tok }

\* tokens that come from no mint
Garbage == { NoToken, [dot |-> TRUE, body |-> <<>>, sig |-> AsciiJunk] }

(***************************************************************************)
(* The aggregated jurisprudence query of judicial_connectors.py            *)
(*                                                                         *)
(* A result record carries fuente, titulo, url and error. The url is a     *)
(* number: n > 0 stands for the reference "https://x/doc/n", EmptyUrl for  *)
(* the empty string and NoKey for a record without the key "url".          *)
(***************************************************************************)
EmptyUrl == 0
NoKey == -1

\* judicial_connectors.py:60
MAX_ITEMS == 10

Rec(fuente, titulo, url, fecha) ==
    [fuente |-> fuente, titulo |-> titulo, url |-> url, fecha |-> fecha, error |-> ""]

\* an entry {"fuente": ..., "error": ...} or {"error": ..., "nivel_consulta": ...}
ErrorRec(fuente, msg) ==
    [fuente |-> fuente, titulo |-> 0, url |-> NoKey, fecha |-> "", error |-> msg]

\* _dedup that lets a later record replace the one it kept
RECURSIVE DedupLoop_keeplast(_, _, _, _)
DedupLoop_keeplast(items, n, seen, out) ==
    IF n > Len(items) THEN out
    ELSE LET val == items[n].url
         IN  IF val # EmptyUrl /\ val # NoKey /\ val \notin seen
             THEN DedupLoop_keeplast(items, n + 1, seen \cup { val }, Append(out, items[n]))
             ELSE IF val \in seen
             THEN DedupLoop_keeplast(items, n + 1, seen,
                      [k \in 1..Len(out) |-> IF out[k].url = val THEN items[n] ELSE out[k]])
             ELSE DedupLoop_keeplast(items, n + 1, seen, out)

\* judicial_connectors.py:107; i.get("url") is falsy for "" and for a missing key
RECURSIVE DedupLoop(_, _, _, _)
DedupLoop(items, n, seen, out) ==
    IF n > Len(items) THEN out
    ELSE LET val == items[n].url
         IN  IF val # EmptyUrl /\ val # NoKey /\ val \notin seen
             THEN DedupLoop(items, n + 1, seen \cup { val }, Append(out, items[n]))
             ELSE DedupLoop(items, n + 1, seen, out)

\* _dedup that never looks at what it has seen
_dedup_noseen(items) == SelectSeq(items, LAMBDA r : r.url # EmptyUrl /\ r.url # NoKey)

_dedup(items) == DedupLoop(items, 1, {}, <<>>)

\* list[:n]
Take(list, n) == SubSeq(list, 1, IF Len(list) < n THEN Len(list) ELSE n)

\* the largest reference number an upstream answers with
MaxUrl == 13

Range(a, b) == [i \in 1..(b - a + 1) |-> a + i - 1]

\* one record per href found, in page order
Scraped(fuente, urls) == [i \in 1..Len(urls) |-> Rec(fuente, i, urls[i], "")]

Found(recs) == [raised |-> FALSE, recs |-> recs]
Raised      == [raised |-> TRUE,  recs |-> <<>>]

\* What the upstream of a scrape adapter does: the navigation times out, the
\* page lacks the search controls, or the result page lists these references.
ScrapeUpstreams(lists) ==
    { [kind |-> "goto_timeout", urls |-> <<>>], [kind |-> "no_selector", urls |-> <<>>] }
    \cup { [kind |-> "nodes", urls |-> l] : l \in lists }

\* judicial_connectors.py:391
_buscar_satje(up) ==
    CASE up.kind = "goto_timeout" -> Raised
      [] up.kind = "no_selector"  -> Found(<<>>)
      [] OTHER                    -> Found(_dedup(Scraped("SATJE", up.urls)))

\* judicial_connectors.py:423
_buscar_corte_constitucional(up) ==
    CASE up.kind = "goto_timeout" -> Raised
      [] up.kind = "no_selector"  -> Found(<<>>)
      [] OTHER                    -> Found(_dedup(Scraped("Corte Constitucional", up.urls)))

\* judicial_connectors.py:479: the API first ("url": pdf_url or ""), the
\* result page when the API raised
_buscar_corte_nacional(up) ==
    CASE up.kind = "api"            -> Found(_dedup(Scraped("Corte Nacional de Justicia (API)",
                                                            Take(up.urls, MAX_ITEMS))))
      [] up.kind = "scrape_timeout" -> Raised
      [] OTHER                      -> Found(_dedup(Scraped("Corte Nacional de Justicia (nuevo)",
                                                            up.urls)))

\* judicial_connectors.py:732 (no PROCESOS_PROXY_URL): the records carry no
\* "url"; a failure of the API is returned as a one-entry list, not raised
_buscar_procesos_judiciales(up) ==
    IF up.kind = "api_error"
    THEN Found(<< ErrorRec("", "No se pudo consultar Procesos Judiciales") >>)
    ELSE Found(_dedup([i \in 1..Len(up.urls) |->
                          Rec("Procesos Judiciales (API)", i, NoKey, "2024-01-01")]))

SatjeUpstreams ==
    ScrapeUpstreams({ << 1, 2, 1 >>, Range(1, MaxUrl \div 2) })

CorteConstitucionalUpstreams ==
    ScrapeUpstreams({ << 2, 3 >>, Range((MaxUrl \div 2) - 1, MaxUrl - 2) })

CorteNacionalUpstreams ==
    { [kind |-> "api", urls |-> << 3, EmptyUrl, MaxUrl - 1 >>],
      [kind |-> "api", urls |-> <<>>],
      [kind |-> "scrape", urls |-> << MaxUrl - 2, MaxUrl >>],
      [kind |-> "scrape_timeout", urls |-> <<>>] }

ProcesosUpstreams ==
    { [kind |-> "api", urls |-> << NoKey, NoKey >>], [kind |-> "api_error", urls |-> <<>>] }

\* judicial_connectors.py:844-849: the sources of the aggregated query, in
\* order; the individual entry points run one of them
Fuentes(mode) ==
    CASE mode = "jurisprudencia" ->
            << "SATJE", "Corte Constitucional", "Corte Nacional de Justicia", "Procesos Judiciales" >>
      [] mode = "corte_nacional" -> << "Corte Nacional de Justicia" >>
      [] mode = "procesos_judiciales" -> << "Procesos Judiciales" >>
      [] OTHER -> <<>>

Upstreams(fuente) ==
    CASE fuente = "SATJE" -> SatjeUpstreams
      [] fuente = "Corte Constitucional" -> CorteConstitucionalUpstreams
      [] fuente = "Corte Nacional de Justicia" -> CorteNacionalUpstreams
      [] OTHER -> ProcesosUpstreams

Buscar(fuente, up) ==
    CASE fuente = "SATJE" -> _buscar_satje(up)
      [] fuente = "Corte Constitucional" -> _buscar_corte_constitucional(up)
      [] fuente = "Corte Nacional de Justicia" -> _buscar_corte_nacional(up)
      [] OTHER -> _buscar_procesos_judiciales(up)

(***************************************************************************)
(* State                                                                   *)
(***************************************************************************)
VARIABLES
    DOWNLOAD_TOKEN_SECRET,  \* main.py:73, fixed when the process starts
    connectorsLoaded,       \* main.py:37-67, whether the import of the connectors succeeded
    clock,                  \* the wall clock, in ticks
    issued,                 \* the last token a mint endpoint returned: request, signed payload, time
    resp,                   \* the request being answered and its response, NoResp between requests
    jpc,                    \* position of the running jurisprudence query
    jmode,                  \* entry point that started it
    jidx,                   \* index of the next source of the loop
    resultados,             \* judicial_connectors.py:841 / 901
    browser,                \* state of the Chromium browser of the query
    context,                \* state of its browser context
    jpending,               \* what the function will return or raise once it has cleaned up
    jlog,                   \* per source invoked: what its search function returned or raised
    jresp,                  \* what the entry point returned to its caller
    gpc,                    \* position of the running consult_global request
    greq,                   \* the request the aggregating handler is serving
    gfuentes,               \* main.py:518, resultado["fuentes"]
    gcalls,                 \* per connector call of the request: who was called, where, what it did
    gresp,                  \* what the handler answered
    fw,                     \* the FielWeb requests in progress, one per thread
    established,            \* a handshake has completed and no 401/403 has followed it
    fcreds,                 \* fielweb_connector.py:26-27, whether both credentials are set
    nitems,                 \* the items handed to _map_sentencia_items
    nmapped,                \* the records it returned
    mrun,                   \* the last turn of a mapper: the item it read, the record it made
    scrape,                 \* a call of a scrape adapter: its page, the controls it found, its result
    cn,                     \* the running call of the hybrid Corte Nacional adapter
    jsc,                    \* the running call of consultar_juriscopio
    export                  \* the running call of exportar_pdf_satje

linkVars == << DOWNLOAD_TOKEN_SECRET, connectorsLoaded, clock, issued, resp >>

jurisVars == << jpc, jmode, jidx, resultados, browser, context, jpending, jlog, jresp >>

globalVars == << gpc, greq, gfuentes, gcalls, gresp >>

vars == << DOWNLOAD_TOKEN_SECRET, connectorsLoaded, clock, issued, resp,
           jpc, jmode, jidx, resultados, browser, context, jpending, jlog, jresp,
           gpc, greq, gfuentes, gcalls, gresp, fw, established, fcreds,
           nitems, nmapped, mrun, scrape, cn, jsc, export >>

fwVars == << fw, established, fcreds >>

normVars == << nitems, nmapped, mrun >>

scrapeVars == << scrape >>

cnVars == << cn >>

jscVars == << jsc >>

exportVars == << export >>

\* what the link service leaves alone, and what the jurisprudence query does
notLinkVars == << jurisVars, globalVars, fwVars, normVars, scrapeVars, cnVars, jscVars, exportVars >>

notJurisVars == << linkVars, globalVars, fwVars, normVars, scrapeVars, cnVars, jscVars, exportVars >>

notGlobalVars == << linkVars, jurisVars, fwVars, normVars, scrapeVars, cnVars, jscVars, exportVars >>

notFwVars == << linkVars, jurisVars, globalVars, normVars, scrapeVars, cnVars, jscVars, exportVars >>

notNormVars == << linkVars, jurisVars, globalVars, fwVars, scrapeVars, cnVars, jscVars, exportVars >>

notScrapeVars == << jurisVars, globalVars, fwVars, normVars, linkVars, cnVars, jscVars, exportVars >>

notCnVars == << jurisVars, globalVars, fwVars, normVars, scrapeVars, linkVars, jscVars, exportVars >>

notJscVars == << jurisVars, globalVars, fwVars, normVars, scrapeVars, cnVars, linkVars, exportVars >>

notExportVars == << jurisVars, globalVars, fwVars, normVars, scrapeVars, cnVars, jscVars, linkVars >>

(***************************************************************************)
(* Link service: initial state and requests                                *)
(***************************************************************************)
NoIssue == [token |-> NoToken, payload |-> EmptyDict, endpoint |-> "none", input |-> EmptyDict, at |-> 0]

NoResp ==
    [endpoint |-> "none", kind |-> "none", status |-> 0, detail |-> "", exp |-> 0,
     token |-> NoToken, payload |-> EmptyDict, verified |-> FALSE, call |-> NoCall,
     media_type |-> "", presented |-> NoToken, input |-> EmptyDict]

MintResp(endpoint, input, m) ==
    [endpoint |-> endpoint, kind |-> m.kind, status |-> m.status, detail |-> m.detail,
     exp |-> m.exp, token |-> m.token, payload |-> m.payload, verified |-> FALSE,
     call |-> NoCall, media_type |-> "", presented |-> NoToken, input |-> input]

ResolveResp(endpoint, r, token) ==
    [endpoint |-> endpoint, kind |-> r.kind, status |-> r.status, detail |-> r.detail,
     exp |-> 0, token |-> NoToken, payload |-> r.payload, verified |-> r.verified,
     call |-> r.call, media_type |-> r.media_type, presented |-> token, input |-> EmptyDict]

LinkInit ==
    /\ DOWNLOAD_TOKEN_SECRET \in { Strip(e) : e \in SecretEnv }
    /\ connectorsLoaded \in BOOLEAN
    /\ clock = TicksPerSecond
    /\ issued = NoIssue
    /\ resp = NoResp

\* time passes between two requests
Tick ==
    /\ resp = NoResp
    /\ clock < MaxSeconds * TicksPerSecond
    /\ clock' = clock + 1
    /\ UNCHANGED << DOWNLOAD_TOKEN_SECRET, connectorsLoaded, issued, resp >>
    /\ UNCHANGED notLinkVars

\* the response is sent to the client
Deliver ==
    /\ resp # NoResp
    /\ resp' = NoResp
    /\ UNCHANGED << DOWNLOAD_TOKEN_SECRET, connectorsLoaded, clock, issued >>
    /\ UNCHANGED notLinkVars

Mint(endpoint, input, m) ==
    /\ resp = NoResp
    /\ resp' = MintResp(endpoint, input, m)
    /\ issued' = IF m.kind = "ok"
                 THEN [token |-> m.token, payload |-> m.payload, endpoint |-> endpoint,
                       input |-> input, at |-> clock]
                 ELSE issued
    /\ UNCHANGED << DOWNLOAD_TOKEN_SECRET, connectorsLoaded, clock >>
    /\ UNCHANGED notLinkVars

PostFielwebDownloadLink ==
    \E payload \in FielwebLinkInputs :
        Mint("fielweb_download_link", payload,
             fielweb_download_link(payload, DOWNLOAD_TOKEN_SECRET, clock))

PostSatjeExportPdfLink ==
    \E payload \in SatjeLinkInputs :
        Mint("satje_export_pdf_link", payload,
             satje_export_pdf_link(payload, DOWNLOAD_TOKEN_SECRET, clock))

\* the token strings a client presents
Presentable ==
    Garbage \cup (IF issued.token = NoToken THEN {}
                  ELSE { issued.token } \cup Tampered(issued.token, issued.payload))

\* the connector answers only when the handler calls it
OutcomesFor(pending) == IF pending.kind = "call" THEN ConnectorOutcomes ELSE { "raise" }

FielwebResolve(token, pending) ==
    \E outcome \in OutcomesFor(pending) :
        resp' = ResolveResp("fielweb_download", fielweb_download_answer(pending, outcome), token)

GetFielwebDownload ==
    /\ resp = NoResp
    /\ \E token \in Presentable :
        FielwebResolve(token, fielweb_download_call(token, DOWNLOAD_TOKEN_SECRET, clock,
                                                    connectorsLoaded))
    /\ UNCHANGED << DOWNLOAD_TOKEN_SECRET, connectorsLoaded, clock, issued >>
    /\ UNCHANGED notLinkVars

SatjeResolve(token, pending) ==
    \E outcome \in OutcomesFor(pending) :
        resp' = ResolveResp("satje_export_pdf", satje_export_pdf_answer(pending, outcome), token)

GetSatjeExportPdf ==
    /\ resp = NoResp
    /\ \E token \in Presentable :
        SatjeResolve(token, satje_export_pdf_call(token, DOWNLOAD_TOKEN_SECRET, clock,
                                                  connectorsLoaded))
    /\ UNCHANGED << DOWNLOAD_TOKEN_SECRET, connectorsLoaded, clock, issued >>
    /\ UNCHANGED notLinkVars

LinkNext ==
    \/ Tick
    \/ Deliver
    \/ PostFielwebDownloadLink
    \/ PostSatjeExportPdfLink
    \/ GetFielwebDownload
    \/ GetSatjeExportPdf

(***************************************************************************)
(* The jurisprudence query: consultar_jurisprudencia runs                  *)
(* _buscar_juris_async, consultar_corte_nacional and                       *)
(* consultar_procesos_judiciales run _buscar_fuente_individual.            *)
(***************************************************************************)
NoPending == [kind |-> "none", nivel_consulta |-> "", resultado |-> <<>>]

NoJResp == [kind |-> "none", nivel_consulta |-> "", resultado |-> <<>>, error |-> ""]

JError(nivel, msg) == [kind |-> "error", nivel_consulta |-> nivel, resultado |-> <<>>, error |-> msg]

\* the "nivel_consulta" of each entry point
Nivel(mode) ==
    CASE mode = "jurisprudencia" -> "Jurisprudencia"
      [] mode = "corte_nacional" -> "Corte Nacional"
      [] OTHER -> "Procesos Judiciales"

Modes == { "jurisprudencia", "corte_nacional", "procesos_judiciales" }

\* the values of "texto" a caller sends
TextoInputs == { <<>>, << " " >>, << "d" >> }

\* the jurisprudence query at rest
JurisIdle ==
    /\ jpc = "idle"
    /\ jmode = "none"
    /\ jidx = 0
    /\ resultados = <<>>
    /\ browser = "none"
    /\ context = "none"
    /\ jpending = NoPending
    /\ jlog = <<>>
    /\ jresp = NoJResp

\* an exception leaves the body of the async with block: the entry point will
\* answer an error dict (judicial_connectors.py:927-930, 953-956)
Propagate(msg) ==
    /\ jresp' = JError(Nivel(jmode), msg)
    /\ jpc' = "exit_playwright"

\* judicial_connectors.py:921, 932, 946: the entry point checks the text and
\* starts the coroutine
Consultar ==
    /\ jpc = "idle"
    /\ \E mode \in Modes, texto \in TextoInputs :
        /\ jmode' = mode
        /\ jidx' = 0
        /\ resultados' = <<>>
        /\ browser' = "none"
        /\ context' = "none"
        /\ jpending' = NoPending
        /\ jlog' = <<>>
        /\ IF Strip(texto) = <<>>
           THEN /\ jresp' = JError(IF mode = "jurisprudencia" THEN "" ELSE Nivel(mode),
                                   "Debe proporcionar un texto valido para busqueda.")
                /\ jpc' = "idle"
           ELSE /\ jresp' = NoJResp
                /\ jpc' = "launch"
    /\ UNCHANGED notJurisVars

\* judicial_connectors.py:836, 903: p.chromium.launch
Launch ==
    /\ jpc = "launch"
    /\ \E ok \in BOOLEAN :
        IF ok
        THEN /\ browser' = "open"
             /\ jpc' = "new_context"
             /\ UNCHANGED jresp
        ELSE /\ Propagate("launch")
             /\ UNCHANGED browser
    /\ UNCHANGED << jmode, jidx, resultados, context, jpending, jlog >>
    /\ UNCHANGED notJurisVars

\* judicial_connectors.py:837, 904: browser.new_context, outside the try
NewContext ==
    /\ jpc = "new_context"
    /\ \E ok \in BOOLEAN :
        IF ok
        THEN /\ context' = "open"
             /\ jpc' = "new_page"
             /\ UNCHANGED jresp
        ELSE /\ Propagate("new_context")
             /\ UNCHANGED context
    /\ UNCHANGED << jmode, jidx, resultados, browser, jpending, jlog >>
    /\ UNCHANGED notJurisVars

\* judicial_connectors.py:838, 905: context.new_page, outside the try
NewPage ==
    /\ jpc = "new_page"
    /\ \E ok \in BOOLEAN :
        IF ok
        THEN /\ jpc' = "sources"
             /\ jidx' = 1
             /\ UNCHANGED jresp
        ELSE /\ Propagate("new_page")
             /\ UNCHANGED jidx
    /\ UNCHANGED << jmode, resultados, browser, context, jpending, jlog >>
    /\ UNCHANGED notJurisVars

\* judicial_connectors.py:850-857 (one turn of the loop) and 908-909
BuscarFuente ==
    /\ jpc = "sources"
    /\ jidx <= Len(Fuentes(jmode))
    /\ LET fuente == Fuentes(jmode)[jidx] IN
       \E up \in Upstreams(fuente) :
           LET r == Buscar(fuente, up) IN
           /\ jlog' = Append(jlog, [fuente |-> fuente, raised |-> r.raised, recs |-> r.recs])
           /\ jidx' = jidx + 1
           /\ IF ~r.raised
              THEN /\ resultados' = resultados \o r.recs
                   /\ UNCHANGED << jpc, jpending >>
              ELSE IF jmode = "jurisprudencia"
              THEN /\ resultados' = Append(resultados, ErrorRec(fuente, "No disponible"))
                   /\ UNCHANGED << jpc, jpending >>
              ELSE /\ jpending' = [kind |-> "raise", nivel_consulta |-> "", resultado |-> <<>>]
                   /\ jpc' = "close_context"
                   /\ UNCHANGED resultados
    /\ UNCHANGED << jmode, browser, context, jresp >>
    /\ UNCHANGED notJurisVars

\* judicial_connectors.py:859-864, 910-915: dedup, truncate, build the result
Merge ==
    /\ jpc = "sources"
    /\ jidx > Len(Fuentes(jmode))
    /\ resultados' = _dedup(resultados)
    /\ jpending' = [kind |-> "return", nivel_consulta |-> Nivel(jmode),
                    resultado |-> Take(resultados', MAX_ITEMS)]
    /\ jpc' = "close_context"
    /\ UNCHANGED << jmode, jidx, browser, context, jlog, jresp >>
    /\ UNCHANGED notJurisVars

\* judicial_connectors.py:867, 917: finally: await context.close()
CloseContext ==
    /\ jpc = "close_context"
    /\ \E ok \in BOOLEAN :
        IF ok
        THEN /\ context' = "closed"
             /\ jpc' = "close_browser"
             /\ UNCHANGED jresp
        ELSE /\ Propagate("context.close")
             /\ UNCHANGED context
    /\ UNCHANGED << jmode, jidx, resultados, browser, jpending, jlog >>
    /\ UNCHANGED notJurisVars

\* judicial_connectors.py:868, 918: await browser.close(), then the function
\* returns its result or lets the pending exception go
CloseBrowser ==
    /\ jpc = "close_browser"
    /\ \E ok \in BOOLEAN :
        IF ok
        THEN /\ browser' = "closed"
             /\ jpc' = "exit_playwright"
             /\ jresp' = IF jpending.kind = "return"
                         THEN [kind |-> "ok", nivel_consulta |-> jpending.nivel_consulta,
                               resultado |-> jpending.resultado, error |-> ""]
                         ELSE JError(Nivel(jmode), "search")
        ELSE /\ Propagate("browser.close")
             /\ UNCHANGED browser
    /\ UNCHANGED << jmode, jidx, resultados, context, jpending, jlog >>
    /\ UNCHANGED notJurisVars

\* what the exit of the async with block leaves of a browser or a context
\* that nobody closed: stopping Playwright ends the driver and the processes
\* it launched, without a close() call of the function
Stopped(handle) == IF handle = "open" THEN "killed" ELSE handle

\* judicial_connectors.py:835, 902: async with async_playwright() as p, left
\* by return or by exception; the function then returns or raises
ExitPlaywright ==
    /\ jpc = "exit_playwright"
    /\ browser' = Stopped(browser)
    /\ context' = Stopped(context)
    /\ jpc' = "idle"
    /\ UNCHANGED << jmode, jidx, resultados, jpending, jlog, jresp >>
    /\ UNCHANGED notJurisVars

JurisNext ==
    \/ Consultar
    \/ Launch
    \/ NewContext
    \/ NewPage
    \/ BuscarFuente
    \/ Merge
    \/ CloseContext
    \/ CloseBrowser
    \/ ExitPlaywright

(***************************************************************************)
(* The Juriscopio connector: consultar_juriscopio and the search it calls  *)
(***************************************************************************)
K_seccion        == << "s", "e", "c", "c", "i", "o", "n" >>
K_tab            == << "t", "a", "b" >>
K_ambito         == << "a", "m", "b", "i", "t", "o" >>
K_scope          == << "s", "c", "o", "p", "e" >>
K_texto          == << "t", "e", "x", "t", "o" >>
K_query          == << "q", "u", "e", "r", "y" >>
K_texto_general  == << "t", "e", "x", "t", "o", "_", "g", "e", "n", "e", "r", "a", "l" >>
K_numero         == << "n", "u", "m", "e", "r", "o" >>
K_numero_caso    == << "n", "u", "m", "e", "r", "o", "_", "c", "a", "s", "o" >>
K_numSentencia   == << "n", "u", "m", "S", "e", "n", "t", "e", "n", "c", "i", "a" >>
K_size           == << "s", "i", "z", "e" >>
K_detalle        == << "d", "e", "t", "a", "l", "l", "e" >>

S_seccion_causa            == << "c", "a", "u", "s", "a" >>
S_causas                   == << "c", "a", "u", "s", "a", "s" >>
S_sentencias_causas        == << "s", "e", "n", "t", "e", "n", "c", "i", "a", "s", "_", "c", "a", "u", "s", "a", "s" >>
S_sentencias_guion_causas  == << "s", "e", "n", "t", "e", "n", "c", "i", "a", "s", "-", "c", "a", "u", "s", "a", "s" >>
S_sentencias_barra_causas  == << "s", "e", "n", "t", "e", "n", "c", "i", "a", "s", "/", "c", "a", "u", "s", "a", "s" >>
S_sentencia                == << "s", "e", "n", "t", "e", "n", "c", "i", "a" >>
S_sentencias               == << "s", "e", "n", "t", "e", "n", "c", "i", "a", "s" >>
S_seleccion_autos          == << "s", "e", "l", "e", "c", "c", "i", "o", "n", "_", "a", "u", "t", "o", "s" >>
S_autos_seleccion          == << "a", "u", "t", "o", "s", "_", "s", "e", "l", "e", "c", "c", "i", "o", "n" >>
S_autos                    == << "a", "u", "t", "o", "s" >>
S_seleccion_casos          == << "s", "e", "l", "e", "c", "c", "i", "o", "n", "_", "c", "a", "s", "o", "s" >>
S_casos_ingresados         == << "c", "a", "s", "o", "s", "_", "i", "n", "g", "r", "e", "s", "a", "d", "o", "s" >>
S_seleccion                == << "s", "e", "l", "e", "c", "c", "i", "o", "n" >>
S_admision                 == << "a", "d", "m", "i", "s", "i", "o", "n" >>
S_caso                     == << "c", "a", "s", "o" >>
S_SENTENCIAS_CAUSAS        == << "S", "e", "n", "t", "e", "n", "c", "i", "a", "s", "_", "C", "a", "u", "s", "a", "s" >>
S_Sentencia                == << "S", "e", "n", "t", "e", "n", "c", "i", "a" >>
S_leyes                    == << "l", "e", "y", "e", "s" >>

\* one optional key of a dict
Field(k, v) == IF v = JNull THEN EmptyDict ELSE (k :> v)

\* (payload.get("seccion") or payload.get("tab") or "causas").lower()
JuriscopioSeccion(payload) ==
    Lower(Or(Or(Get(payload, K_seccion), Get(payload, K_tab)), JStr(S_causas)).s)

\* (payload.get("ambito") or payload.get("scope") or "").lower()
JuriscopioAmbito(payload) ==
    Lower(Or(Or(Get(payload, K_ambito), Get(payload, K_scope)), JStr(<<>>)).s)

\* (payload.get("texto") or payload.get("query") or payload.get("texto_general") or "").strip()
JuriscopioTexto(payload) ==
    Strip(Or(Or(Or(Get(payload, K_texto), Get(payload, K_query)), Get(payload, K_texto_general)),
             JStr(<<>>)).s)

\* payload.get("numero") or payload.get("numero_caso") or payload.get("numSentencia") or ""
JuriscopioNumero(payload) ==
    Or(Or(Or(Get(payload, K_numero), Get(payload, K_numero_caso)), Get(payload, K_numSentencia)),
       JStr(<<>>))

\* judicial_connectors.py:1274-1280, in the first definition only of
\* _buscar_juriscopio_http_v2: the names a section also goes by
SeccionAlias(seccion) ==
    IF seccion \in { S_sentencias_causas, S_sentencias_guion_causas } THEN S_causas
    ELSE IF seccion \in { S_seleccion_autos, S_autos_seleccion } THEN S_autos
    ELSE IF seccion \in { S_seleccion_casos, S_casos_ingresados } THEN S_seleccion
    ELSE seccion

\* no search: the section is not known
NoRoute == [etiqueta |-> "", parser |-> "", api |-> ""]

\* judicial_connectors.py:1318-1354 and 1787-1823: the search a section and
\* an ambito select, the same in both definitions
JuriscopioRoute(seccion, ambito) ==
    CASE seccion \in { S_seccion_causa, S_causas, S_sentencias_barra_causas } ->
            IF ambito \in { S_sentencia, S_sentencias }
            THEN [etiqueta |-> "Sentencias", parser |-> "_map_sentencia_items",
                  api |-> "sentencia/100_BUSCR_SNTNCIA"]
            ELSE [etiqueta |-> "Causas", parser |-> "_map_causa_items", api |-> "causa/buscar"]
      [] seccion \in { S_sentencia, S_sentencias } ->
            [etiqueta |-> "Sentencias", parser |-> "_map_sentencia_items",
             api |-> "sentencia/100_BUSCR_SNTNCIA"]
      [] seccion \in { S_seleccion_autos, S_autos_seleccion, S_autos } ->
            [etiqueta |-> "Seleccion - Autos", parser |-> "_map_seleccion_items",
             api |-> "seleccion/100_BUSCR_SELECCION"]
      [] seccion \in { S_seleccion_casos, S_casos_ingresados, S_seleccion } ->
            [etiqueta |-> "Seleccion - Casos", parser |-> "_map_seleccion_items",
             api |-> "seleccion/100_BUSCR_SELECCION"]
      [] seccion = S_admision ->
            [etiqueta |-> "Admision", parser |-> "_map_admision_items",
             api |-> "admision/100_BUSCR_ADMISION"]
      [] OTHER -> NoRoute

JuriscopioError(msg) ==
    [kind |-> "error", error |-> msg, seccion |-> "", parser |-> "", api |-> "", resultado |-> <<>>]

\* what the upstream does with the POST of _post_juriscopio: it answers a
\* page of items, or the request raises or is answered with a status >= 400
JuriscopioUpstreams ==
    { [kind |-> "raise", dato |-> <<>>] }
    \cup { [kind |-> "dato", dato |-> l] : l \in { <<>>, << 1 >>, << 1, 2 >> } }

\* "limite = int(size_req) if size_req else MAX_ITEMS"
JuriscopioLimite(payload) ==
    IF Truthy(Get(payload, K_size)) THEN Get(payload, K_size).i ELSE MAX_ITEMS

\* judicial_connectors.py:1354-1367 and 1823-1836: the POST and the slice of
\* the parsed items; an exception of the POST leaves the function
JuriscopioSearch(route, payload, up) ==
    IF route = NoRoute THEN JuriscopioError("Seccion Juriscopio desconocida")
    ELSE IF up.kind = "raise"
    THEN [kind |-> "raise", error |-> "RuntimeError", seccion |-> "", parser |-> "",
          api |-> route.api, resultado |-> <<>>]
    ELSE [kind |-> "ok", error |-> "", seccion |-> route.etiqueta, parser |-> route.parser,
          api |-> route.api, resultado |-> Take(up.dato, JuriscopioLimite(payload))]

\* judicial_connectors.py:1273, the definition that line 1750 replaces when
\* the module is loaded
_buscar_juriscopio_http_v2_1273(payload, up) ==
    JuriscopioSearch(JuriscopioRoute(SeccionAlias(JuriscopioSeccion(payload)),
                                     JuriscopioAmbito(payload)), payload, up)

\* judicial_connectors.py:1750, the definition in force: the section is
\* looked up as it was sent
_buscar_juriscopio_http_v2(payload, up) ==
    JuriscopioSearch(JuriscopioRoute(JuriscopioSeccion(payload), JuriscopioAmbito(payload)),
                     payload, up)

\* judicial_connectors.py:1845-1856 (the definition in force): the text
\* test, the search, and its exception made an error dict
consultar_juriscopio(payload, up) ==
    IF /\ JuriscopioTexto(payload) = <<>>
       /\ JuriscopioSeccion(payload) # S_admision
       /\ ~Truthy(JuriscopioNumero(payload))
    THEN JuriscopioError("Debe proporcionar un texto o numero para la consulta.")
    ELSE LET res == _buscar_juriscopio_http_v2(payload, up)
         IN  IF res.kind = "raise"
             THEN [JuriscopioError("Error general al consultar Juriscopio") EXCEPT !.api = res.api]
             ELSE res

(***************************************************************************)
(* The aggregating endpoints and the connector endpoints of main.py        *)
(***************************************************************************)
\* What a connector call ends with: it raises, it returns {"error": ...}, or
\* it returns {"resultado": [...]}.  The connectors of providers/ catch what
\* their upstream raises and return the error dict; the handlers of main.py
\* also guard the call itself (run_in_threadpool) with except Exception.
ConnRaises(msg)    == [kind |-> "raise", msg |-> msg, resultado |-> <<>>]
ConnError(msg)     == [kind |-> "error", msg |-> msg, resultado |-> <<>>]
ConnResults(items) == [kind |-> "ok",    msg |-> "",  resultado |-> items]

\* the longest result list an upstream answers with
MaxResultados == 2

ResultLists == { <<>>, Range(1, MaxResultados) }

UpstreamOutcomes ==
    { ConnRaises("boom"), ConnError("upstream") } \cup { ConnResults(l) : l \in ResultLists }

\* the connectors that return an error dict for an empty text before they
\* open a session or a browser (fielweb_connector.py:550-552,
\* judicial_connectors.py:922-924, 933-935, 947-949, 1846-1850);
\* consultar_uafe (uafe_connector.py:44-47) and consultar_spdp
\* (judicial_connectors.py:2064-2093) fetch their page whatever the text is
RequiresText(connector) ==
    connector \in { "fielweb", "jurisprudencia", "corte_nacional", "procesos_judiciales", "juriscopio" }

\* one call of a connector with this text, given what its upstream would do
CallConnector(connector, texto, up) ==
    IF RequiresText(connector) /\ Strip(texto) = <<>>
    THEN [upstream |-> FALSE, out |-> ConnError("Debe proporcionar texto")]
    ELSE [upstream |-> TRUE,  out |-> up]

\* the entry of gcalls for one call; on: "threadpool" when the handler
\* awaits run_in_threadpool, "event_loop" when it calls the function itself
CallEntry(fuente, c, on) ==
    [fuente |-> fuente, upstream |-> c.upstream, out |-> c.out, on |-> on]

\* main.py:480-488
_min_fielweb_item(item, sec) == [fuente |-> "FielWeb", norma_id |-> item, seccion |-> sec]

\* main.py:491-498
_min_generic_item(item, fuente) == [fuente |-> fuente, id |-> item]

\* a row of the UAFE table, passed through as it is (main.py:591)
UafeRow(item) == [row |-> item]

\* the mapping without the slice: every item of the source is filed
MapItems_unlimited(items, limit, fuente) ==
    [i \in 1..Len(items) |-> _min_generic_item(items[i], fuente)]

\* main.py:564-565, 573, 582: [_min_generic_item(i, fuente) for i in items[:limit]]
MapItems(items, limit, fuente) ==
    [i \in 1..Len(Take(items, limit)) |-> _min_generic_item(items[i], fuente)]

\* the names of the sources, as the caller spells them in "usar_fuentes"
N_fielweb        == << "f", "i", "e", "l", "w", "e", "b" >>
N_juriscopio     == << "j", "u", "r", "i", "s", "c", "o", "p", "i", "o" >>
N_corte_nacional == << "c", "o", "r", "t", "e", "_", "n", "a", "c", "i", "o", "n", "a", "l" >>
N_jurisprudencia == << "j", "u", "r", "i", "s", "p", "r", "u", "d", "e", "n", "c", "i", "a" >>
N_uafe           == << "u", "a", "f", "e" >>
N_UAFE           == << "U", "A", "F", "E" >>

SourceName(key) ==
    CASE key = "fielweb"        -> N_fielweb
      [] key = "juriscopio"     -> N_juriscopio
      [] key = "corte_nacional" -> N_corte_nacional
      [] key = "jurisprudencia" -> N_jurisprudencia
      [] OTHER                  -> N_uafe

\* a default list that leaves the last source out
DefaultFuentes_four == << N_fielweb, N_juriscopio, N_corte_nacional, N_jurisprudencia >>

\* main.py:508-514
DefaultFuentes == << N_fielweb, N_juriscopio, N_corte_nacional, N_jurisprudencia, N_uafe >>

\* main.py:506
DefaultLimit == 3

\* main.py:507
DefaultSecciones == << 1, 4 >>

\* what a caller sends: <<>> and 0 stand for an absent (or empty) field
UsarFuentesInputs ==
    { <<>>, << N_fielweb >>, << N_UAFE, N_juriscopio >>, << N_corte_nacional, N_jurisprudencia >> }

LimitInputs == { 0, 1 }

SeccionesInputs == { <<>>, << 1 >> }

NoFuentes == [k \in {} |-> <<>>]

\* resultado["fuentes"][key] = list
Put(fuentes, key, list) == (key :> list) @@ fuentes

\* Optional values of a JSON body
PyNone     == [some |-> FALSE, v |-> <<>>]
Some(list) == [some |-> TRUE,  v |-> list]

NoConsultadas == [FielWeb |-> FALSE, Jurisprudencia |-> FALSE]

NoGReq == [endpoint |-> "none", texto |-> <<>>, fuentes |-> <<>>, usar |-> <<>>, limit |-> 0, secciones |-> <<>>]

\* The answers of the handlers.  kind: "success" for a body that reports a
\* completed query, "error" for an HTTPException or a body with "error".
NoGResp ==
    [endpoint |-> "none", status |-> 0, kind |-> "none", detail |-> "", fuentes |-> NoFuentes,
     consultadas |-> NoConsultadas, normativa |-> PyNone, jurisprudencia |-> PyNone,
     resultado |-> <<>>]

GError(endpoint, status, detail) ==
    [endpoint |-> endpoint, status |-> status, kind |-> "error", detail |-> detail,
     fuentes |-> NoFuentes, consultadas |-> NoConsultadas, normativa |-> PyNone,
     jurisprudencia |-> PyNone, resultado |-> <<>>]

\* main.py:595-599
GlobalEnvelope(fuentes) ==
    [endpoint |-> "consult_global", status |-> 200, kind |-> "success",
     detail |-> "Pre-busqueda global completada", fuentes |-> fuentes,
     consultadas |-> NoConsultadas, normativa |-> PyNone, jurisprudencia |-> PyNone,
     resultado |-> <<>>]

\* main.py:461-471
HybridEnvelope(consultadas, normativa, jurisprudencia) ==
    [endpoint |-> "consult_hybrid", status |-> 200, kind |-> "success",
     detail |-> "Consulta hibrida completada con exito", fuentes |-> NoFuentes,
     consultadas |-> consultadas, normativa |-> normativa, jurisprudencia |-> jurisprudencia,
     resultado |-> <<>>]

\* the dict a connector returned, sent as the body of the answer
ConnectorBody(endpoint, out) ==
    [endpoint |-> endpoint, status |-> 200, kind |-> IF out.kind = "ok" THEN "success" ELSE "error",
     detail |-> out.msg, fuentes |-> NoFuentes, consultadas |-> NoConsultadas,
     normativa |-> PyNone, jurisprudencia |-> PyNone, resultado |-> out.resultado]

\* no aggregated request is running
GlobalIdle ==
    /\ gpc = "idle"
    /\ greq = NoGReq
    /\ gfuentes = NoFuentes
    /\ gcalls = <<>>
    /\ gresp = NoGResp

Elems(list) == { list[i] : i \in 1..Len(list) }

\* a handler that gives up at the first exception: a source is run only
\* while no earlier call raised
Enabled_untilraise(key) ==
    /\ connectorsLoaded
    /\ SourceName(key) \in Elems(greq.fuentes)
    /\ \A i \in 1..Len(gcalls) : gcalls[i].out.kind # "raise"

\* main.py:521, 542, 569, 578, 586: "<key>" in fuentes and <connector>
Enabled(key) == connectorsLoaded /\ SourceName(key) \in Elems(greq.fuentes)

\* main.py:502-518: consult_global reads its payload
ConsultGlobal ==
    /\ gpc = "idle"
    /\ gresp = NoGResp
    /\ \E texto \in TextoInputs, usar \in UsarFuentesInputs, lim \in LimitInputs,
          secs \in SeccionesInputs :
        /\ greq' = [endpoint |-> "consult_global", texto |-> Strip(texto),
                    usar |-> usar,
                    fuentes |-> [i \in 1..Len(IF usar = <<>> THEN DefaultFuentes ELSE usar) |->
                                    Lower((IF usar = <<>> THEN DefaultFuentes ELSE usar)[i])],
                    limit |-> IF lim = 0 THEN DefaultLimit ELSE lim,
                    secciones |-> IF secs = <<>> THEN DefaultSecciones ELSE secs]
        /\ gfuentes' = NoFuentes
        /\ gcalls' = <<>>
        /\ IF Strip(texto) = <<>>
           THEN /\ gresp' = GError("consult_global", 400, "Debe proporcionar 'texto'")
                /\ gpc' = "idle"
           ELSE /\ gresp' = NoGResp
                /\ gpc' = "fielweb"
    /\ UNCHANGED notGlobalVars

\* main.py:524-538: the loop over the sections; outs[i] is what the call for
\* secs[i] ends with
RECURSIVE FwLoop(_, _, _, _)
FwLoop(secs, outs, limit, i) ==
    IF i > Len(secs) THEN <<>>
    ELSE (IF outs[i].kind = "raise"
          THEN << [error |-> outs[i].msg, seccion |-> secs[i]] >>
          ELSE [j \in 1..Len(Take(outs[i].resultado, limit)) |->
                   _min_fielweb_item(outs[i].resultado[j], secs[i])])
         \o FwLoop(secs, outs, limit, i + 1)

Max(a, b) == IF a > b THEN a ELSE b

\* main.py:521-539
GlobalFielweb ==
    /\ gpc = "fielweb"
    /\ IF Enabled("fielweb")
       THEN \E outs \in [1..Len(greq.secciones) -> UpstreamOutcomes] :
              /\ gfuentes' = Put(gfuentes, "fielweb",
                                 Take(FwLoop(greq.secciones, outs, greq.limit, 1),
                                      Max(1, greq.limit * Len(greq.secciones))))
              /\ gcalls' = gcalls \o
                     [i \in 1..Len(greq.secciones) |->
                         CallEntry("fielweb", CallConnector("fielweb", greq.texto, outs[i]), "threadpool")]
       ELSE UNCHANGED << gfuentes, gcalls >>
    /\ gpc' = "juriscopio"
    /\ UNCHANGED << greq, gresp >>
    /\ UNCHANGED notGlobalVars

\* main.py:545-560: the two payloads of the Juriscopio source
GlobalJuriscopioPayload(ambito, texto, limit) ==
    (K_seccion :> JStr(S_sentencias_causas)) @@ (K_ambito :> JStr(ambito))
    @@ (K_texto :> JStr(texto)) @@ (K_size :> JInt(limit))

\* what run_in_threadpool(consultar_juriscopio, payload) ends with: the call
\* raises, or consultar_juriscopio returns its dict given what the upstream
\* would do; upstream tells whether the POST was sent
GlobalJuriscopioCalls(ambito) ==
    { [upstream |-> FALSE, out |-> ConnRaises("boom")] }
    \cup { LET res == consultar_juriscopio(
                          GlobalJuriscopioPayload(ambito, greq.texto, greq.limit), up)
           IN  [upstream |-> res.api # "",
                out |-> IF res.kind = "ok" THEN ConnResults(res.resultado)
                        ELSE ConnError(res.error)] : up \in JuriscopioUpstreams }

\* main.py:542-566: two calls in one try
GlobalJuriscopio ==
    /\ gpc = "juriscopio"
    /\ IF Enabled("juriscopio")
       THEN \E casos \in GlobalJuriscopioCalls(S_caso), sent \in GlobalJuriscopioCalls(S_sentencia) :
              IF casos.out.kind = "raise"
              THEN /\ gfuentes' = Put(gfuentes, "juriscopio", << [error |-> casos.out.msg] >>)
                   /\ gcalls' = Append(gcalls, CallEntry("juriscopio", casos, "threadpool"))
              ELSE /\ gcalls' = gcalls \o
                         << CallEntry("juriscopio", casos, "threadpool"),
                            CallEntry("juriscopio", sent, "threadpool") >>
                   /\ gfuentes' =
                         IF sent.out.kind = "raise"
                         THEN Put(gfuentes, "juriscopio", << [error |-> sent.out.msg] >>)
                         ELSE Put(Put(gfuentes, "juriscopio_casos",
                                      MapItems(casos.out.resultado, greq.limit, "Juriscopio - Casos")),
                                  "juriscopio_sentencias",
                                  MapItems(sent.out.resultado, greq.limit, "Juriscopio - Sentencias"))
       ELSE UNCHANGED << gfuentes, gcalls >>
    /\ gpc' = "corte_nacional"
    /\ UNCHANGED << greq, gresp >>
    /\ UNCHANGED notGlobalVars

\* main.py:569-575, 578-584: one call in a try
SingleSource(key, fuente, on, out) ==
    /\ gcalls' = Append(gcalls, CallEntry(key, CallConnector(key, greq.texto, out), on))
    /\ gfuentes' = IF out.kind = "raise"
                   THEN Put(gfuentes, key, << [error |-> out.msg] >>)
                   ELSE Put(gfuentes, key, MapItems(out.resultado, greq.limit, fuente))

\* main.py:569-575
GlobalCorteNacional ==
    /\ gpc = "corte_nacional"
    /\ IF Enabled("corte_nacional")
       THEN \E out \in UpstreamOutcomes : SingleSource("corte_nacional", "Corte Nacional", "threadpool", out)
       ELSE UNCHANGED << gfuentes, gcalls >>
    /\ gpc' = "jurisprudencia"
    /\ UNCHANGED << greq, gresp >>
    /\ UNCHANGED notGlobalVars

\* main.py:578-584
GlobalJurisprudencia ==
    /\ gpc = "jurisprudencia"
    /\ IF Enabled("jurisprudencia")
       THEN \E out \in UpstreamOutcomes : SingleSource("jurisprudencia", "Jurisprudencia", "threadpool", out)
       ELSE UNCHANGED << gfuentes, gcalls >>
    /\ gpc' = "uafe"
    /\ UNCHANGED << greq, gresp >>
    /\ UNCHANGED notGlobalVars

\* main.py:586-593: consultar_uafe is called by the coroutine itself
GlobalUafe ==
    /\ gpc = "uafe"
    /\ IF Enabled("uafe")
       THEN \E out \in UpstreamOutcomes :
              /\ gcalls' = Append(gcalls, CallEntry("uafe", CallConnector("uafe", greq.texto, out), "event_loop"))
              /\ gfuentes' = IF out.kind = "raise"
                             THEN Put(gfuentes, "uafe", << [error |-> out.msg] >>)
                             ELSE Put(gfuentes, "uafe",
                                      [i \in 1..Len(Take(out.resultado, greq.limit)) |-> UafeRow(out.resultado[i])])
       ELSE UNCHANGED << gfuentes, gcalls >>
    /\ gpc' = "return"
    /\ UNCHANGED << greq, gresp >>
    /\ UNCHANGED notGlobalVars

\* main.py:595-599
GlobalReturn ==
    /\ gpc = "return"
    /\ gresp' = GlobalEnvelope(gfuentes)
    /\ gpc' = "idle"
    /\ UNCHANGED << greq, gfuentes, gcalls >>
    /\ UNCHANGED notGlobalVars

\* resultado_x.get("resultado") of main.py:457-458
GetResultado(out) == IF out.kind = "ok" THEN Some(out.resultado) ELSE PyNone

\* main.py:452-475, given what the two connector calls ended with
HybridAnswer(c1, c2) ==
    IF c1.out.kind = "raise"
    THEN [calls |-> << CallEntry("fielweb", c1, "threadpool") >>,
          resp  |-> GError("consult_hybrid", 500, "Error hibrido")]
    ELSE IF c2.out.kind = "raise"
    THEN [calls |-> << CallEntry("fielweb", c1, "threadpool"),
                       CallEntry("jurisprudencia", c2, "threadpool") >>,
          resp  |-> GError("consult_hybrid", 500, "Error hibrido")]
    ELSE [calls |-> << CallEntry("fielweb", c1, "threadpool"),
                       CallEntry("jurisprudencia", c2, "threadpool") >>,
          resp  |-> HybridEnvelope([FielWeb |-> TRUE, Jurisprudencia |-> TRUE],
                                   GetResultado(c1.out), GetResultado(c2.out))]

\* main.py:447-475
ConsultHybrid ==
    /\ gpc = "idle"
    /\ gresp = NoGResp
    /\ \E texto \in TextoInputs, o1 \in UpstreamOutcomes, o2 \in UpstreamOutcomes :
        /\ greq' = [endpoint |-> "consult_hybrid", texto |-> texto, fuentes |-> <<>>, usar |-> <<>>,
                    limit |-> 0, secciones |-> <<>>]
        /\ IF connectorsLoaded
           THEN /\ gcalls' = HybridAnswer(CallConnector("fielweb", texto, o1),
                                          CallConnector("jurisprudencia", texto, o2)).calls
                /\ gresp' = HybridAnswer(CallConnector("fielweb", texto, o1),
                                         CallConnector("jurisprudencia", texto, o2)).resp
           ELSE /\ gcalls' = <<>>
                /\ gresp' = HybridEnvelope(NoConsultadas, Some(<<>>), Some(<<>>))
    /\ gfuentes' = NoFuentes
    /\ UNCHANGED gpc
    /\ UNCHANGED notGlobalVars

\* The endpoints that serve one connector: its connector, how the handler
\* calls it, and what it answers when the connector is missing or raises
\* (main.py:143-155, 307-404 with run_in_threadpool and HTTP 500;
\* main.py:409-442 with a direct call and an error body)
ConnectorEndpoints ==
    { [endpoint |-> "consult_real_fielweb",        connector |-> "fielweb",             on |-> "threadpool", failure |-> 500],
      [endpoint |-> "consult_real_jurisprudencia", connector |-> "jurisprudencia",      on |-> "threadpool", failure |-> 500],
      [endpoint |-> "consult_corte_nacional",      connector |-> "corte_nacional",      on |-> "threadpool", failure |-> 500],
      [endpoint |-> "consult_procesos_judiciales", connector |-> "procesos_judiciales", on |-> "threadpool", failure |-> 500],
      [endpoint |-> "consult_juriscopio",          connector |-> "juriscopio",          on |-> "threadpool", failure |-> 500],
      [endpoint |-> "consult_real_uafe",           connector |-> "uafe",                on |-> "event_loop", failure |-> 200],
      [endpoint |-> "consult_spdp",                connector |-> "spdp",                on |-> "event_loop", failure |-> 200] }

EndpointAnswer(e, c) ==
    IF c.out.kind = "raise"
    THEN GError(e.endpoint, e.failure, "Error del conector")
    ELSE ConnectorBody(e.endpoint, c.out)

\* main.py:143-155, 307-318, 320-331, 333-344, 386-395, 409-423, 428-442
ConsultConnector ==
    /\ gpc = "idle"
    /\ gresp = NoGResp
    /\ \E e \in ConnectorEndpoints, texto \in TextoInputs, out \in UpstreamOutcomes :
        /\ greq' = [endpoint |-> e.endpoint, texto |-> texto, fuentes |-> <<>>, usar |-> <<>>,
                    limit |-> 0, secciones |-> <<>>]
        /\ IF connectorsLoaded
           THEN /\ gcalls' = << CallEntry(e.connector, CallConnector(e.connector, texto, out), e.on) >>
                /\ gresp' = EndpointAnswer(e, CallConnector(e.connector, texto, out))
           ELSE /\ gcalls' = <<>>
                /\ gresp' = GError(e.endpoint, e.failure, "Conector no disponible")
    /\ gfuentes' = NoFuentes
    /\ UNCHANGED gpc
    /\ UNCHANGED notGlobalVars

\* the diagnostic endpoints, each a coroutine that calls requests.get
CheckEndpoints ==
    { "check_external_sources", "check_corte_nacional_status",
      "check_corte_constitucional_status", "check_uafe_status", "check_fielweb_status" }

\* main.py:604-622: requests.get answered, or raised and was caught
_ping_url(ok) == IF ok THEN ConnResults(<<>>) ELSE ConnError("ping")

\* main.py:625-661, 663-686, 688-707, 709-728, 730-794: the pings run in the
\* coroutine; the answer is a report whatever the pings did
CheckStatus ==
    /\ gpc = "idle"
    /\ gresp = NoGResp
    /\ \E e \in CheckEndpoints, ok \in BOOLEAN :
        /\ greq' = [endpoint |-> e, texto |-> <<>>, fuentes |-> <<>>, usar |-> <<>>, limit |-> 0, secciones |-> <<>>]
        /\ gcalls' = << CallEntry("ping", [upstream |-> TRUE, out |-> _ping_url(ok)], "event_loop") >>
        /\ gresp' = [ConnectorBody(e, ConnResults(<<>>)) EXCEPT !.detail = "verificacion completada"]
    /\ gfuentes' = NoFuentes
    /\ UNCHANGED gpc
    /\ UNCHANGED notGlobalVars

\* the answer has left; the handler keeps nothing of the request
GlobalDeliver ==
    /\ gpc = "idle"
    /\ gresp # NoGResp
    /\ greq' = NoGReq
    /\ gfuentes' = NoFuentes
    /\ gcalls' = <<>>
    /\ gresp' = NoGResp
    /\ UNCHANGED gpc
    /\ UNCHANGED notGlobalVars

GlobalNext ==
    \/ ConsultGlobal
    \/ GlobalFielweb
    \/ GlobalJuriscopio
    \/ GlobalCorteNacional
    \/ GlobalJurisprudencia
    \/ GlobalUafe
    \/ GlobalReturn
    \/ ConsultHybrid
    \/ ConsultConnector
    \/ CheckStatus
    \/ GlobalDeliver

(***************************************************************************)
(* The FielWeb connector: session, handshake and authenticated calls       *)
(***************************************************************************)
\* the requests that run at once, each on a thread of the pool
\* (main.py:152, 207: run_in_threadpool)
MaxWorkers == 2

Workers == 1..MaxWorkers

NoSession == 0

NoTk == 0

\* What FielWeb answers to a POST: an HTTP status, a body that is a JSON
\* object or not, and in the object "Respuesta" and a token under "Data"
PostAnswer(status, json, respuesta, tk) ==
    [status |-> status, json |-> json, respuesta |-> respuesta, tk |-> tk]

Unauthorized == { PostAnswer(401, FALSE, FALSE, FALSE), PostAnswer(403, FALSE, FALSE, FALSE) }

HttpErrors == { PostAnswer(403, FALSE, FALSE, FALSE) }

NotJson == PostAnswer(200, FALSE, FALSE, FALSE)

\* sign-in: its body is read for "Respuesta" and for a token
SigninAnswers ==
    HttpErrors \cup { NotJson, PostAnswer(200, TRUE, FALSE, FALSE),
                      PostAnswer(200, TRUE, TRUE, FALSE), PostAnswer(200, TRUE, TRUE, TRUE) }

\* accept-terms: nothing of its body is read
AcceptAnswers == HttpErrors \cup { NotJson, PostAnswer(200, TRUE, TRUE, FALSE) }

\* traerUsuario: its body is read for a token
UsuarioAnswers ==
    HttpErrors \cup { NotJson, PostAnswer(200, TRUE, TRUE, FALSE), PostAnswer(200, TRUE, TRUE, TRUE) }

\* buscar and generarDOC: a result list or a path under "Data"
CallAnswers ==
    Unauthorized \cup { PostAnswer(500, FALSE, FALSE, FALSE), PostAnswer(200, TRUE, TRUE, FALSE) }

\* a _post_json without raise_for_status and without the checks of the body
_post_json_unchecked(answer) == ""

\* fielweb_connector.py:53-63: "" when the call returns the body, else the
\* exception it raises
_post_json(answer) ==
    IF answer.status >= 400 THEN "HTTPError"
    ELSE IF ~answer.json THEN "RuntimeError"
    ELSE ""

\* one request of the connector: where it is, what it is (search: consultar_fielweb,
\* download: descargar_norma_archivo), its session, the requests it has sent,
\* the token of sign-in and the token it holds, and what it returned
FwRest ==
    [pc |-> "idle", kind |-> "none", sess |-> NoSession, sent |-> <<>>, signin_tk |-> NoTk,
     token |-> NoTk, out |-> "none"]

\* a request sent through the session, with the token it carried and the
\* answer it got
Sent(w, path, tk, answer) ==
    Append(w.sent, [path |-> path, sess |-> w.sess, tk |-> tk, answer |-> answer])

\* the request ends: consultar_fielweb turns every exception into an error
\* dict (fielweb_connector.py:612-618); descargar_norma_archivo lets the
\* exceptions of the handshake go (fielweb_connector.py:256-257)
Fails(w, exc) ==
    [w EXCEPT !.pc = "done",
              !.out = IF w.kind = "search"
                      THEN (IF exc = "HTTPError" THEN "error_http" ELSE "error")
                      ELSE "raised"]

\* fielweb_connector.py:38-50: a new requests.Session for every call, named
\* here after the thread that made it
_session(r) == r

\* no request is running and no session was ever established
FwIdle ==
    /\ fw = [r \in Workers |-> FwRest]
    /\ established = FALSE
    /\ fcreds = TRUE

\* fielweb_connector.py:547-552, 577-579 and 255-257: the text check of the
\* search, then _session() and the credentials check of _login_and_token
FwStart ==
    /\ \E r \in Workers, kind \in { "search", "download" }, texto \in TextoInputs :
        /\ fw[r].pc = "idle"
        /\ fw[r].out = "none"
        /\ IF kind = "search" /\ Strip(texto) = <<>>
           THEN fw' = [fw EXCEPT ![r] = [FwRest EXCEPT !.kind = kind, !.pc = "done", !.out = "error"]]
           ELSE fw' = [fw EXCEPT ![r] =
                         IF fcreds
                         THEN [FwRest EXCEPT !.kind = kind, !.sess = _session(r), !.pc = "visit_login"]
                         ELSE Fails([FwRest EXCEPT !.kind = kind, !.sess = _session(r)], "RuntimeError")]
    /\ UNCHANGED << established, fcreds >>
    /\ UNCHANGED notFwVars

\* the GET of the login page: whether it returns a page or raises, nothing
\* of it is kept
LoginPage(ok) == PostAnswer(0, FALSE, FALSE, FALSE)

\* fielweb_connector.py:84-87: the GET of the login page; what it raises is
\* swallowed
FwVisitLogin ==
    /\ \E r \in Workers, ok \in BOOLEAN :
        /\ fw[r].pc = "visit_login"
        /\ fw' = [fw EXCEPT ![r] = [@ EXCEPT !.pc = "signin", !.sent = Sent(fw[r], "Login.aspx", NoTk, LoginPage(ok))]]
    /\ UNCHANGED << established, fcreds >>
    /\ UNCHANGED notFwVars

\* fielweb_connector.py:89-94
FwSignin ==
    /\ \E r \in Workers, answer \in SigninAnswers :
        /\ fw[r].pc = "signin"
        /\ fw' = [fw EXCEPT ![r] =
                    IF _post_json(answer) # ""
                    THEN Fails([@ EXCEPT !.sent = Sent(fw[r], "signin", NoTk, answer)], _post_json(answer))
                    ELSE IF ~answer.respuesta
                    THEN Fails([@ EXCEPT !.sent = Sent(fw[r], "signin", NoTk, answer)], "RuntimeError")
                    ELSE [@ EXCEPT !.sent = Sent(fw[r], "signin", NoTk, answer), !.pc = "accept_terms",
                                   !.signin_tk = IF answer.tk THEN fw[r].sess ELSE NoTk]]
    /\ UNCHANGED << established, fcreds >>
    /\ UNCHANGED notFwVars

\* fielweb_connector.py:96
FwAcceptTerms ==
    /\ \E r \in Workers, answer \in AcceptAnswers :
        /\ fw[r].pc = "accept_terms"
        /\ fw' = [fw EXCEPT ![r] =
                    IF _post_json(answer) # ""
                    THEN Fails([@ EXCEPT !.sent = Sent(fw[r], "aceptoTerminosCondiciones", NoTk, answer)],
                               _post_json(answer))
                    ELSE [@ EXCEPT !.sent = Sent(fw[r], "aceptoTerminosCondiciones", NoTk, answer),
                                   !.pc = "traer_usuario"]]
    /\ UNCHANGED << established, fcreds >>
    /\ UNCHANGED notFwVars

\* fielweb_connector.py:100-105: the token of traerUsuario, else that of sign-in
TokenOf(w, answer) == IF answer.tk THEN w.sess ELSE w.signin_tk

\* fielweb_connector.py:97-108: the last step of the handshake
FwTraerUsuario ==
    /\ \E r \in Workers, answer \in UsuarioAnswers :
        /\ fw[r].pc = "traer_usuario"
        /\ IF _post_json(answer) # ""
           THEN /\ fw' = [fw EXCEPT ![r] = Fails([@ EXCEPT !.sent = Sent(fw[r], "traerUsuario", NoTk, answer)],
                                                 _post_json(answer))]
                /\ UNCHANGED established
           ELSE IF TokenOf(fw[r], answer) = NoTk
           THEN /\ fw' = [fw EXCEPT ![r] = Fails([@ EXCEPT !.sent = Sent(fw[r], "traerUsuario", NoTk, answer)],
                                                 "RuntimeError")]
                /\ UNCHANGED established
           ELSE /\ fw' = [fw EXCEPT ![r] = [@ EXCEPT !.sent = Sent(fw[r], "traerUsuario", NoTk, answer),
                                                     !.token = TokenOf(fw[r], answer),
                                                     !.pc = "call"]]
                /\ established' = TRUE
    /\ UNCHANGED fcreds
    /\ UNCHANGED notFwVars

\* fielweb_connector.py:580-590 with 351-381 (the search, sent with "tk") and
\* 258-265 with 177-233 (the download: _generar_doc swallows what the call
\* raises and returns None)
FwCall ==
    /\ \E r \in Workers, answer \in CallAnswers :
        /\ fw[r].pc = "call"
        /\ fw' = [fw EXCEPT ![r] =
                    IF fw[r].kind = "search"
                    THEN (IF _post_json(answer) # ""
                          THEN Fails([@ EXCEPT !.sent = Sent(fw[r], "buscar", fw[r].token, answer)],
                                     _post_json(answer))
                          ELSE [@ EXCEPT !.sent = Sent(fw[r], "buscar", fw[r].token, answer),
                                         !.pc = "done", !.out = "ok"])
                    ELSE [@ EXCEPT !.sent = Sent(fw[r], "generarDOC", NoTk, answer),
                                   !.pc = "done",
                                   !.out = IF _post_json(answer) # "" THEN "nothing" ELSE "ok"]]
        \* a 401/403 tells that the session is no longer good
        /\ established' = IF answer \in Unauthorized THEN FALSE ELSE established
    /\ UNCHANGED fcreds
    /\ UNCHANGED notFwVars

\* the caller has the result; the thread is free for another request
FwDeliver ==
    /\ \E r \in Workers :
        /\ fw[r].pc = "done"
        /\ fw' = [fw EXCEPT ![r] = FwRest]
    /\ UNCHANGED << established, fcreds >>
    /\ UNCHANGED notFwVars

FwNext ==
    \/ FwStart
    \/ FwVisitLogin
    \/ FwSignin
    \/ FwAcceptTerms
    \/ FwTraerUsuario
    \/ FwCall
    \/ FwDeliver

(***************************************************************************)
(* The mapper of the Juriscopio sentence records                           *)
(***************************************************************************)
\* a JSON array of n elements; only its length matters to the mapper
JList(n) == [t |-> "list", i |-> n, s |-> <<>>]

\* the int 1000 * k: the epoch milliseconds of the upstream are beyond the
\* integers TLC computes with, so they are kept in thousands
JThousands(k) == [t |-> "int_e3", i |-> k, s |-> <<>>]

\* judicial_connectors.py:277: d[k] not in (None, "", [])
NotEmptyValue(v) == v # JNull /\ v # JStr(<<>>) /\ v # JList(0)

\* the keys tried from the last to the first: a later key overrides
RECURSIVE _pick_last(_, _)
_pick_last(d, keys) ==
    IF keys = <<>> THEN JStr(<<>>)
    ELSE IF keys[Len(keys)] \in DOMAIN d /\ NotEmptyValue(d[keys[Len(keys)]]) THEN d[keys[Len(keys)]]
    ELSE _pick_last(d, SubSeq(keys, 1, Len(keys) - 1))

\* judicial_connectors.py:275-279
RECURSIVE _pick(_, _)
_pick(d, keys) ==
    IF keys = <<>> THEN JStr(<<>>)
    ELSE IF Head(keys) \in DOMAIN d /\ NotEmptyValue(d[Head(keys)]) THEN d[Head(keys)]
    ELSE _pick(d, Tail(keys))

\* judicial_connectors.py:125: 10_000_000_000, in thousands
EpochMsThreshold == 10000000

\* judicial_connectors.py:124: isinstance(valor, (int, float)); bool is an int
IsNumber(v) == v.t \in {"int", "int_e3", "bool"}

\* judicial_connectors.py:125-126: a value above the threshold is taken for
\* milliseconds and divided by 1000, any other for seconds
EpochSeconds(v) ==
    IF v.t = "int_e3"
    THEN (IF v.i > EpochMsThreshold THEN v.i ELSE v.i * 1000)
    ELSE v.i

SecondsPerDay == 86400

\* datetime.utcfromtimestamp(sec): the civil date of the day sec falls on
utcfromtimestamp(sec) ==
    LET z   == (sec \div SecondsPerDay) + 719468
        era == z \div 146097
        doe == z - era * 146097
        yoe == (doe - doe \div 1460 + doe \div 36524 - doe \div 146096) \div 365
        doy == doe - (365 * yoe + yoe \div 4 - yoe \div 100)
        mp  == (5 * doy + 2) \div 153
        m   == IF mp < 10 THEN mp + 3 ELSE mp - 9
    IN  [year  |-> yoe + era * 400 + (IF m <= 2 THEN 1 ELSE 0),
         month |-> m,
         day   |-> doy - (153 * mp + 2) \div 5 + 1]

RECURSIVE ZeroPad(_, _)
ZeroPad(cs, width) == IF Len(cs) >= width THEN cs ELSE ZeroPad(<< "0" >> \o cs, width)

\* strftime("%Y-%m-%d")
strftime(dt) ==
    ZeroPad(NatToStr(dt.year), 4) \o << "-" >> \o ZeroPad(NatToStr(dt.month), 2)
        \o << "-" >> \o ZeroPad(NatToStr(dt.day), 2)

\* utcfromtimestamp raises outside the years 1..9999 (caught at line 130)
MAXYEAR == 9999

InRange(dt) == dt.year >= 1 /\ dt.year <= MAXYEAR

FormatDate(dt) == IF InRange(dt) THEN JStr(strftime(dt)) ELSE JStr(<<>>)

\* judicial_connectors.py:116-132
_norm_fecha(valor) ==
    IF valor = JNull THEN JStr(<<>>)
    ELSE IF IsNumber(valor) THEN FormatDate(utcfromtimestamp(EpochSeconds(valor)))
    ELSE IF valor.t = "str" THEN JStr(Strip(valor.s))
    ELSE JStr(<<>>)

\* judicial_connectors.py:1026
DateKeys == << "fechaDecision", "fechaNotificacion", "fecha", "fechaIngreso" >>

\* d.get(k) or ""
GetOrEmpty(d, k) == Or(Get(d, k), JStr(<<>>))

\* " ".join(it.get("highlight", {}).get("textogeneral", []) or []); the item
\* holds the joined lines
h_text(it) == IF "highlight" \in DOMAIN it.top THEN it.top["highlight"] ELSE JStr(<<>>)

\* judicial_connectors.py:1018: sentencia = it.get("sentencia") or it; an
\* empty dict is falsy
SentenciaOf(it) ==
    IF it.nested /\ DOMAIN it.node # {} THEN it.node ELSE it.top

\* judicial_connectors.py:1020-1033
MapSentencia(it) ==
    [fuente           |-> "Juriscopio - Sentencias",
     numero_sentencia |-> _pick(SentenciaOf(it), << "numeroSentencia", "numSentencia", "numerosentencia", "numero" >>),
     numero_caso      |-> _pick(SentenciaOf(it), << "numeroCausa", "numCausa", "numerocausa" >>),
     fecha            |-> _norm_fecha(_pick(SentenciaOf(it), DateKeys)),
     juez             |-> _pick(SentenciaOf(it), << "nombrejuez", "juez", "juezPonente", "loginjuez" >>),
     materia          |-> GetOrEmpty(SentenciaOf(it), "materia"),
     decision         |-> _pick(SentenciaOf(it), << "decision", "resolucion" >>),
     pdf_url          |-> _pick(SentenciaOf(it), << "urlPdf", "urlpdf", "urlSentencia", "urlauto" >>),
     descripcion      |-> Or(Get(SentenciaOf(it), "textogeneral"),
                             Or(h_text(it), GetOrEmpty(SentenciaOf(it), "descripcion"))),
     score            |-> Get(it.top, "score")]

\* judicial_connectors.py:1015-1034
_map_sentencia_items(items) == [i \in 1..Len(items) |-> MapSentencia(items[i])]

\* judicial_connectors.py:998: causa = it.get("causa") or {}
CausaOf(it) == IF it.nested THEN it.node ELSE EmptyDict

\* judicial_connectors.py:1040, 1061: the record under its key, or the item
NodoOf(it) == IF it.nested /\ DOMAIN it.node # {} THEN it.node ELSE it.top

\* judicial_connectors.py:1000-1011
MapCausa(it) ==
    [fuente      |-> "Juriscopio - Causas",
     numero_caso |-> GetOrEmpty(CausaOf(it), "numerocausa"),
     fecha       |-> _norm_fecha(Get(CausaOf(it), "fechaingreso")),
     juez        |-> Or(Get(CausaOf(it), "nombrejuez"), GetOrEmpty(CausaOf(it), "loginjuez")),
     accion      |-> Or(Get(CausaOf(it), "accion"), GetOrEmpty(CausaOf(it), "tipoaccion")),
     pdf_url     |-> Get(CausaOf(it), "urlauto"),
     descripcion |-> Or(Get(CausaOf(it), "textogeneral"), Or(h_text(it), JStr(<<>>))),
     score       |-> Get(it.top, "score"),
     id_causa    |-> Get(CausaOf(it), "idcausa"),
     id          |-> Get(CausaOf(it), "id")]

\* judicial_connectors.py:995-1012
_map_causa_items(items) == [i \in 1..Len(items) |-> MapCausa(items[i])]

\* judicial_connectors.py:1042-1054
MapSeleccion(it, etiqueta) ==
    [fuente           |-> etiqueta,
     numero_caso      |-> _pick(NodoOf(it), << "numeroCausa", "numerocausa" >>),
     numero_caso_auto |-> _pick(NodoOf(it), << "numeroCausaAuto", "numerocausaauto" >>),
     caso_judicatura  |-> GetOrEmpty(NodoOf(it), "casoJudicatura"),
     fecha            |-> _norm_fecha(_pick(NodoOf(it), << "fechaIngreso", "fechaingreso", "fecha" >>)),
     juez             |-> _pick(NodoOf(it), << "nombrejuez", "juez" >>),
     pronunciamiento  |-> _pick(NodoOf(it), << "pronunciamientoDelInferior", "pronunciamientoInferior",
                                               "pronunciamiento" >>),
     estado           |-> _pick(NodoOf(it), << "estadoProcesal", "estado", "estadoProceso" >>),
     pdf_url          |-> _pick(NodoOf(it), << "urlPdf", "urlauto", "urlAuto", "url" >>),
     descripcion      |-> Or(Get(NodoOf(it), "textogeneral"), Or(h_text(it), JStr(<<>>))),
     score            |-> Get(it.top, "score")]

\* judicial_connectors.py:1037-1055
_map_seleccion_items(items, etiqueta) == [i \in 1..Len(items) |-> MapSeleccion(items[i], etiqueta)]

\* judicial_connectors.py:1063-1073
MapAdmision(it) ==
    [fuente      |-> "Juriscopio - Admision",
     numero_caso |-> _pick(NodoOf(it), << "numeroCausa", "numerocausa" >>),
     fecha       |-> _norm_fecha(_pick(NodoOf(it), << "fechaDecision", "fecha", "fechaIngreso" >>)),
     juez        |-> _pick(NodoOf(it), << "juez", "nombrejuez" >>),
     tipo_accion |-> _pick(NodoOf(it), << "tipoaccion", "tipoAccion" >>),
     decision    |-> GetOrEmpty(NodoOf(it), "decision"),
     pdf_url     |-> _pick(NodoOf(it), << "urlPdf", "url" >>),
     descripcion |-> Or(Get(NodoOf(it), "textogeneral"), Or(h_text(it), JStr(<<>>))),
     score       |-> Get(it.top, "score")]

\* judicial_connectors.py:1058-1074
_map_admision_items(items) == [i \in 1..Len(items) |-> MapAdmision(items[i])]

\* str.split(sep)[0]
RECURSIVE SplitFirst(_, _)
SplitFirst(cs, sep) ==
    IF cs = <<>> \/ Head(cs) = sep THEN <<>> ELSE << Head(cs) >> \o SplitFirst(Tail(cs), sep)

\* (d.get(k) or "").strip()
GetStripped(d, k) == JStr(Strip(GetOrEmpty(d, k).s))

\* (d.get(k) or "").split(sep)[0] if d.get(k) else ""
GetUpTo(d, k, sep) ==
    IF Truthy(Get(d, k)) THEN JStr(SplitFirst(GetOrEmpty(d, k).s, sep)) ELSE JStr(<<>>)

\* v[:n] of a str
Slice(v, n) == JStr(Take(v.s, n))

\* judicial_connectors.py:522, 721, 754, 803
DescMax == 400

\* judicial_connectors.py:753, 802
TituloMax == 180

S_SentenciaCorteNacional ==
    << "S", "e", "n", "t", "e", "n", "c", "i", "a", " ", "C", "o", "r", "t", "e", " ",
       "N", "a", "c", "i", "o", "n", "a", "l" >>

S_ProcesoJudicial ==
    << "P", "r", "o", "c", "e", "s", "o", " ", "j", "u", "d", "i", "c", "i", "a", "l" >>

\* judicial_connectors.py:517-518: " ".join(resumen_list) if resumen_list
\* else (it.get("descripcion") or ""); the list holds its joined lines
Resumen(it) ==
    IF Truthy(Get(it.top, "resumen")) THEN JStr(Get(it.top, "resumen").s)
    ELSE GetOrEmpty(it.top, "descripcion")

\* judicial_connectors.py:512-531, the record of one item of the API answer
CorteNacionalApiRecord(it) ==
    [fuente         |-> "Corte Nacional de Justicia (API)",
     titulo         |-> Or(GetStripped(it.top, "numeroProceso"),
                           Or(Get(it.top, "numeroResolucion"), JStr(S_SentenciaCorteNacional))),
     descripcion    |-> Slice(Resumen(it), DescMax),
     url            |-> GetOrEmpty(it.top, "urlPdf"),
     pdf_url        |-> Get(it.top, "urlPdf"),
     numero_proceso |-> GetStripped(it.top, "numeroProceso"),
     juez           |-> GetStripped(it.top, "juezPonente"),
     sala           |-> GetStripped(it.top, "nombreSala"),
     fecha          |-> GetUpTo(it.top, "fechaProvidencia", "T"),
     estado         |-> Get(it.top, "nombreEstadoProceso"),
     materia        |-> Get(it.top, "nombreMateria")]

\* judicial_connectors.py:794-809, the record of one item of the API answer
ProcesosApiRecord(it) ==
    [fuente           |-> "Procesos Judiciales (API)",
     titulo           |-> Slice(Or(GetStripped(it.top, "nombreProvidencia"), JStr(S_ProcesoJudicial)), TituloMax),
     descripcion      |-> Slice(GetOrEmpty(it.top, "texto"), DescMax),
     numero_proceso   |-> GetStripped(it.top, "idJuicio"),
     fecha            |-> GetUpTo(it.top, "fechaActividad", " "),
     id_judicatura    |-> Get(it.top, "idJudicatura"),
     estado           |-> Get(it.top, "estado"),
     tabla_referencia |-> Get(it.top, "tablaReferencia"),
     id_incidente     |-> Get(it.top, "idIncidenteJudicatura")]

\* the most blanks around, or in place of, a date string of the upstream
MaxPad == 1

Blanks(n) == [i \in 1..n |-> " "]

\* the date the upstream sends under the i-th key, as text and as epoch
DateOf(i) == [year |-> 2020 + i, month |-> i, day |-> 10 + i]

EpochOf(i) == 1600000000 + i * 40 * SecondsPerDay

\* what an upstream record holds under its i-th date key
DateValues(i) ==
    { JNull, JStr(<<>>), JList(0), JInt(EpochOf(i)), JThousands(EpochOf(i)) }
        \cup { JStr(Blanks(p) \o strftime(DateOf(i)) \o Blanks(p)) : p \in 0..MaxPad }
        \cup { JStr(Blanks(p)) : p \in 1..MaxPad }

\* marks a key the record does not have
Absent == [t |-> "absent", i |-> 0, s |-> <<>>]

\* the dict with the i-th date key set to vs[i], unless vs[i] is Absent
RecordOf(vs) ==
    [k \in { DateKeys[i] : i \in { j \in 1..Len(DateKeys) : vs[j] # Absent } } |->
        vs[CHOOSE i \in 1..Len(DateKeys) : DateKeys[i] = k]]

\* the records of the upstream: any subset of the date keys, any values
SentenciaRecords ==
    { RecordOf(<< v1, v2, v3, v4 >>) :
        v1 \in DateValues(1) \cup { Absent }, v2 \in DateValues(2) \cup { Absent },
        v3 \in DateValues(3) \cup { Absent }, v4 \in DateValues(4) \cup { Absent } }

\* an item of the search answer: the record itself, or the record under
\* the key "sentencia"
RawItems ==
    { [nested |-> FALSE, node |-> EmptyDict, top |-> d] : d \in SentenciaRecords }
        \cup { [nested |-> TRUE, node |-> d, top |-> EmptyDict] : d \in SentenciaRecords }

\* the most keys an upstream record holds
MaxKeys == 2

\* the keys the mappers read from the record of an item
CausaKeys ==
    { "numerocausa", "fechaingreso", "nombrejuez", "loginjuez", "accion", "tipoaccion",
      "urlauto", "textogeneral", "idcausa", "id" }

SentenciaKeys ==
    { "numeroSentencia", "numSentencia", "numerosentencia", "numero", "numeroCausa", "numCausa",
      "numerocausa", "fechaDecision", "fechaNotificacion", "fecha", "fechaIngreso", "nombrejuez",
      "juez", "juezPonente", "loginjuez", "materia", "decision", "resolucion", "urlPdf", "urlpdf",
      "urlSentencia", "urlauto", "textogeneral", "descripcion" }

SeleccionKeys ==
    { "numeroCausa", "numerocausa", "numeroCausaAuto", "numerocausaauto", "casoJudicatura",
      "fechaIngreso", "fechaingreso", "fecha", "nombrejuez", "juez", "pronunciamientoDelInferior",
      "pronunciamientoInferior", "pronunciamiento", "estadoProcesal", "estado", "estadoProceso",
      "urlPdf", "urlauto", "urlAuto", "url", "textogeneral" }

AdmisionKeys ==
    { "numeroCausa", "numerocausa", "fechaDecision", "fecha", "fechaIngreso", "juez", "nombrejuez",
      "tipoaccion", "tipoAccion", "decision", "urlPdf", "url", "textogeneral" }

CorteNacionalApiKeys ==
    { "numeroProceso", "juezPonente", "nombreSala", "fechaProvidencia", "urlPdf", "resumen",
      "descripcion", "numeroResolucion", "nombreEstadoProceso", "nombreMateria" }

ProcesosApiKeys ==
    { "idJuicio", "fechaActividad", "nombreProvidencia", "texto", "idJudicatura", "estado",
      "tablaReferencia", "idIncidenteJudicatura" }

\* the keys they read from the item itself
ItemKeys == { "score", "highlight" }

\* the keys that hold free text, and those that hold a number
TextKeys == { "textogeneral", "descripcion", "highlight", "texto", "resumen" }

NumberKeys == { "score", "idcausa", "id", "idJudicatura", "idIncidenteJudicatura" }

TextOf(n) == [i \in 1..n |-> "x"]

\* the lengths of the free texts of the upstream
TextLens == { 1, DescMax, DescMax + 1 }

\* what the upstream holds under key k; its free texts are n characters long
ValueOf(k, n) ==
    IF k = "resumen" THEN [t |-> "list", i |-> 2, s |-> TextOf(n)]
    ELSE IF k \in TextKeys THEN JStr(TextOf(n))
    ELSE IF k \in NumberKeys THEN JInt(7)
    ELSE IF k = "fechaProvidencia" THEN JStr(<< "d", "T", "h" >>)
    ELSE IF k = "fechaActividad" THEN JStr(<< "d", " ", "h" >>)
    ELSE JStr(<< "v" >>)

\* the sets of at most n of the keys
RECURSIVE KeySets(_, _)
KeySets(keys, n) ==
    IF n = 0 THEN { {} }
    ELSE KeySets(keys, n - 1) \cup { s \cup { k } : s \in KeySets(keys, n - 1), k \in keys }

\* the item that holds the keys ks: its record under the key of the mapper
\* (nested) or the item being the record
ItemOfKeys(ks, nested, n) ==
    [nested |-> nested,
     node   |-> IF nested THEN [k \in ks \ ItemKeys |-> ValueOf(k, n)] ELSE EmptyDict,
     top    |-> [k \in (IF nested THEN ks \cap ItemKeys ELSE ks) |-> ValueOf(k, n)]]

Items(keys, nestings) ==
    { ItemOfKeys(ks, nested, n) : ks \in KeySets(keys, MaxKeys), nested \in nestings, n \in TextLens }

NoRun == [mapper |-> "none", item |-> ItemOfKeys({}, FALSE, 1), record |-> [fuente |-> ""]]

\* one turn of the loop of a mapper, on one item of the upstream answer
Mapped(mapper, it, record) ==
    /\ nitems = <<>>
    /\ mrun = NoRun
    /\ mrun' = [mapper |-> mapper, item |-> it, record |-> record]
    /\ UNCHANGED << nitems, nmapped >>
    /\ UNCHANGED notNormVars

\* judicial_connectors.py:995-1012
MapCausaItems ==
    \E it \in Items(CausaKeys \cup ItemKeys, BOOLEAN) :
        Mapped("_map_causa_items", it, _map_causa_items(<< it >>)[1])

\* judicial_connectors.py:1015-1034
MapSentenciaRecords ==
    \E it \in Items(SentenciaKeys \cup ItemKeys, BOOLEAN) :
        Mapped("_map_sentencia_items", it, _map_sentencia_items(<< it >>)[1])

\* judicial_connectors.py:1037-1055
MapSeleccionItems ==
    \E it \in Items(SeleccionKeys \cup ItemKeys, BOOLEAN),
       etiqueta \in { "Juriscopio - Autos de seleccion", "Juriscopio - Casos ingresados a seleccion" } :
        Mapped("_map_seleccion_items", it, _map_seleccion_items(<< it >>, etiqueta)[1])

\* judicial_connectors.py:1058-1074
MapAdmisionItems ==
    \E it \in Items(AdmisionKeys \cup ItemKeys, BOOLEAN) :
        Mapped("_map_admision_items", it, _map_admision_items(<< it >>)[1])

\* judicial_connectors.py:511-531
MapCorteNacionalApi ==
    \E it \in Items(CorteNacionalApiKeys, { FALSE }) :
        Mapped("_buscar_corte_nacional", it, CorteNacionalApiRecord(it))

\* judicial_connectors.py:794-809
MapProcesosApi ==
    \E it \in Items(ProcesosApiKeys, { FALSE }) :
        Mapped("_buscar_procesos_judiciales", it, ProcesosApiRecord(it))

\* the record has left with the answer
MapDeliver ==
    /\ mrun # NoRun
    /\ mrun' = NoRun
    /\ UNCHANGED << nitems, nmapped >>
    /\ UNCHANGED notNormVars

NormIdle ==
    /\ nitems = <<>>
    /\ nmapped = <<>>
    /\ mrun = NoRun

\* judicial_connectors.py:1015-1034, on the items of one answer
MapSentenciaItems ==
    /\ nitems = <<>>
    /\ mrun = NoRun
    /\ \E it \in RawItems :
        /\ nitems' = << it >>
        /\ nmapped' = _map_sentencia_items(<< it >>)
    /\ UNCHANGED mrun
    /\ UNCHANGED notNormVars

\* the mapped records have left with the answer
NormDeliver ==
    /\ nitems # <<>>
    /\ nitems' = <<>>
    /\ nmapped' = <<>>
    /\ UNCHANGED mrun
    /\ UNCHANGED notNormVars

NormNext ==
    \/ MapSentenciaItems
    \/ NormDeliver
    \/ MapCausaItems
    \/ MapSentenciaRecords
    \/ MapSeleccionItems
    \/ MapAdmisionItems
    \/ MapCorteNacionalApi
    \/ MapProcesosApi
    \/ MapDeliver

(***************************************************************************)
(* The scrape adapters, control by control                                 *)
(***************************************************************************)
\* judicial_connectors.py:397-398
SatjeQuerySelectors  == << "#txtBuscar", "input[id*=\"Buscar\"]" >>

SatjeSubmitSelectors == << "#btnBuscar", "button[id*=\"btnBuscar\"]" >>

\* judicial_connectors.py:430-441
CcQuerySelectors ==
    << "input[placeholder*=\"Digite el texto\"]", "input[placeholder*=\"Buscar\"]",
       "input[name*=\"texto\"]", "input[type=\"text\"]" >>

CcSubmitSelectors ==
    << "button:has-text(\"Buscar\")", "button[aria-label*=\"Buscar\"]",
       "button[type=\"submit\"]", "button:has(svg)" >>

ScrapeAdapters == { "_buscar_satje", "_buscar_corte_constitucional" }

QuerySelectors(adapter) ==
    IF adapter = "_buscar_satje" THEN SatjeQuerySelectors ELSE CcQuerySelectors

SubmitSelectors(adapter) ==
    IF adapter = "_buscar_satje" THEN SatjeSubmitSelectors ELSE CcSubmitSelectors

\* what page.query_selector does with a selector: it finds a node, it finds
\* none, or it raises
SelectorOutcomes == { "match", "none", "raise" }

\* the selector None of _first_selector
NoSelector == ""

\* judicial_connectors.py:85-92; found[i] is what the page does with
\* selectors[i]
RECURSIVE _first_selector(_, _, _)
_first_selector(found, selectors, i) ==
    IF i > Len(selectors) THEN NoSelector
    ELSE IF found[i] = "match" THEN selectors[i]
    ELSE _first_selector(found, selectors, i + 1)

NoPage == [q |-> <<>>, b |-> <<>>]

\* the pages of the upstream: every outcome for every selector of the lists
Pages(adapter) ==
    { [q |-> q, b |-> b] : q \in [1..Len(QuerySelectors(adapter)) -> SelectorOutcomes],
                           b \in [1..Len(SubmitSelectors(adapter)) -> SelectorOutcomes] }

ScrapeRest ==
    [pc |-> "idle", adapter |-> "none", page |-> NoPage, q_sel |-> NoSelector, b_sel |-> NoSelector,
     filled |-> NoSelector, clicked |-> NoSelector, out |-> [kind |-> "none", recs |-> <<>>]]

ScrapeIdle == scrape = ScrapeRest

\* the adapter is called on a page of the browser
ScrapeStart ==
    /\ scrape = ScrapeRest
    /\ \E adapter \in ScrapeAdapters :
        \E page \in Pages(adapter) :
            scrape' = [ScrapeRest EXCEPT !.pc = "goto", !.adapter = adapter, !.page = page]
    /\ UNCHANGED notScrapeVars

\* judicial_connectors.py:395, 427: page.goto; a timeout leaves the adapter
ScrapeGoto ==
    /\ scrape.pc = "goto"
    /\ \E ok \in BOOLEAN :
        scrape' = IF ok THEN [scrape EXCEPT !.pc = "find_query"]
                  ELSE [scrape EXCEPT !.pc = "done", !.out = [kind |-> "raise", recs |-> <<>>]]
    /\ UNCHANGED notScrapeVars

\* judicial_connectors.py:397, 430-435
ScrapeFindQuery ==
    /\ scrape.pc = "find_query"
    /\ scrape' = [scrape EXCEPT !.pc = "find_submit",
                                !.q_sel = _first_selector(scrape.page.q, QuerySelectors(scrape.adapter), 1)]
    /\ UNCHANGED notScrapeVars

\* judicial_connectors.py:398, 436-441
ScrapeFindSubmit ==
    /\ scrape.pc = "find_submit"
    /\ scrape' = [scrape EXCEPT !.pc = "check",
                                !.b_sel = _first_selector(scrape.page.b, SubmitSelectors(scrape.adapter), 1)]
    /\ UNCHANGED notScrapeVars

\* judicial_connectors.py:399-400, 442-443: if not q_sel or not b_sel: return []
ScrapeCheck ==
    /\ scrape.pc = "check"
    /\ scrape' = IF scrape.q_sel = NoSelector \/ scrape.b_sel = NoSelector
                 THEN [scrape EXCEPT !.pc = "done", !.out = [kind |-> "return", recs |-> <<>>]]
                 ELSE [scrape EXCEPT !.pc = "search"]
    /\ UNCHANGED notScrapeVars

\* judicial_connectors.py:402-421, 445-465: fill, click, and one record per
\* link of the result page
ScrapeSearch ==
    /\ scrape.pc = "search"
    /\ \E urls \in { <<>>, << 1, 2, 1 >> } :
        scrape' = [scrape EXCEPT !.pc = "done", !.filled = scrape.q_sel, !.clicked = scrape.b_sel,
                                 !.out = [kind |-> "return",
                                          recs |-> IF scrape.adapter = "_buscar_satje"
                                                   THEN _buscar_satje([kind |-> "nodes", urls |-> urls]).recs
                                                   ELSE _buscar_corte_constitucional(
                                                            [kind |-> "nodes", urls |-> urls]).recs]]
    /\ UNCHANGED notScrapeVars

\* the caller has the result
ScrapeDeliver ==
    /\ scrape.pc = "done"
    /\ scrape' = ScrapeRest
    /\ UNCHANGED notScrapeVars

ScrapeNext ==
    \/ ScrapeStart
    \/ ScrapeGoto
    \/ ScrapeFindQuery
    \/ ScrapeFindSubmit
    \/ ScrapeCheck
    \/ ScrapeSearch
    \/ ScrapeDeliver

(***************************************************************************)
(* The hybrid Corte Nacional adapter, strategy by strategy                 *)
(***************************************************************************)
\* What the public API does with the POST of judicial_connectors.py:507-510:
\* it answers a page of sentences, or requests.post, raise_for_status or
\* resp.json raise, or the item at position "at" is not a mapping.
CnApiUpstreams ==
    { [kind |-> "content", urls |-> l, at |-> 0] : l \in { <<>>, << 3, EmptyUrl, 3 >>, Range(1, MAX_ITEMS + 1) } }
    \cup { [kind |-> k, urls |-> <<>>, at |-> 0] : k \in { "post_raise", "status_raise", "json_raise" } }
    \cup { [kind |-> "item_raise", urls |-> << 3, 4 >>, at |-> n] : n \in 1..2 }

\* judicial_connectors.py:506-534: the API strategy; every exception of the
\* block is logged and leaves the records mapped so far in resultados
CnApiAttempt_reraise(api) ==
    CASE api.kind = "content" ->
            [kind |-> "return",
             recs |-> _dedup(Scraped("Corte Nacional de Justicia (API)", Take(api.urls, MAX_ITEMS)))]
      [] api.kind = "item_raise" ->
            [kind |-> "raise",
             recs |-> Scraped("Corte Nacional de Justicia (API)", Take(api.urls, api.at - 1))]
      [] OTHER -> [kind |-> "raise", recs |-> <<>>]

CnApiAttempt(api) ==
    CASE api.kind = "content" ->
            [kind |-> "return",
             recs |-> _dedup(Scraped("Corte Nacional de Justicia (API)", Take(api.urls, MAX_ITEMS)))]
      [] api.kind = "item_raise" ->
            [kind |-> "except",
             recs |-> Scraped("Corte Nacional de Justicia (API)", Take(api.urls, api.at - 1))]
      [] OTHER -> [kind |-> "except", recs |-> <<>>]

\* what one page.evaluate of the result page gives: cards, none, or it raises
CnCards == { [kind |-> "cards", urls |-> << 5, 3 >>], [kind |-> "cards", urls |-> <<>>],
             [kind |-> "raise", urls |-> <<>>] }

\* judicial_connectors.py:554-676: raw_cards after the three extractions
CnRawCards(e1, e2, e3) ==
    LET first  == IF e1.kind = "raise" THEN <<>> ELSE e1.urls
        second == IF e2.kind = "raise" THEN first ELSE e2.urls
    IN  IF second # <<>> THEN second
        ELSE IF e3.kind = "raise" THEN <<>> ELSE e3.urls

CnCallers == { "consultar_corte_nacional", "_buscar_juris_async" }

NoAnswer == [kind |-> "none", recs |-> <<>>]

CnRest ==
    [pc |-> "idle", caller |-> "none", api |-> [kind |-> "none", urls |-> <<>>, at |-> 0],
     trace |-> <<>>, api_raised |-> FALSE, scrape_failed |-> FALSE,
     resultados |-> <<>>, out |-> NoAnswer, answer |-> NoAnswer]

CnIdle == cn = CnRest

\* judicial_connectors.py:847, 926: a caller runs the adapter on its page
CnStart ==
    /\ cn = CnRest
    /\ \E caller \in CnCallers, api \in CnApiUpstreams :
        cn' = [CnRest EXCEPT !.pc = "api", !.caller = caller, !.api = api]
    /\ UNCHANGED notCnVars

\* judicial_connectors.py:506-534
CnApi ==
    /\ cn.pc = "api"
    /\ LET a == CnApiAttempt(cn.api)
       IN  cn' = CASE a.kind = "return" ->
                        [cn EXCEPT !.pc = "returned", !.trace = Append(@, "api"), !.out = a]
                   [] a.kind = "raise" ->
                        [cn EXCEPT !.pc = "returned", !.trace = Append(@, "api"),
                                   !.api_raised = TRUE, !.out = [kind |-> "raise", recs |-> <<>>]]
                   [] OTHER ->
                        [cn EXCEPT !.pc = "goto", !.trace = Append(@, "api"),
                                   !.api_raised = TRUE, !.resultados = a.recs]
    /\ UNCHANGED notCnVars

\* judicial_connectors.py:535-540: page.goto is outside every try
CnGoto ==
    /\ cn.pc = "goto"
    /\ \E ok \in BOOLEAN :
        cn' = IF ok THEN [cn EXCEPT !.pc = "wait", !.trace = Append(@, "scrape")]
              ELSE [cn EXCEPT !.pc = "returned", !.trace = Append(@, "scrape"),
                              !.scrape_failed = TRUE, !.out = [kind |-> "raise", recs |-> <<>>]]
    /\ UNCHANGED notCnVars

\* judicial_connectors.py:541-551: only PWTimeout is caught
CnWait ==
    /\ cn.pc = "wait"
    /\ \E w \in { "loaded", "PWTimeout", "Error" } :
        cn' = IF w = "Error"
              THEN [cn EXCEPT !.pc = "returned", !.scrape_failed = TRUE,
                              !.out = [kind |-> "raise", recs |-> <<>>]]
              ELSE [cn EXCEPT !.pc = "extract"]
    /\ UNCHANGED notCnVars

\* judicial_connectors.py:554-729: the three extractions, one record per
\* card after the records the API attempt left, and _dedup
CnExtract ==
    /\ cn.pc = "extract"
    /\ \E e1 \in CnCards, e2 \in CnCards, e3 \in CnCards :
        cn' = [cn EXCEPT !.pc = "returned",
                         !.resultados = @ \o Scraped("Corte Nacional de Justicia (nuevo)",
                                                     CnRawCards(e1, e2, e3)),
                         !.out = [kind |-> "return",
                                  recs |-> _dedup(cn.resultados
                                                  \o Scraped("Corte Nacional de Justicia (nuevo)",
                                                             CnRawCards(e1, e2, e3)))]]
    /\ UNCHANGED notCnVars

\* judicial_connectors.py:850-857, 908-915, 925-930: what the caller makes of
\* the adapter's outcome
CnReturn ==
    /\ cn.pc = "returned"
    /\ cn' = [cn EXCEPT !.pc = "done",
                        !.answer = IF cn.out.kind = "raise"
                                   THEN [kind |-> "error", recs |-> <<>>]
                                   ELSE [kind |-> "resultado",
                                         recs |-> Take(_dedup(cn.out.recs), MAX_ITEMS)]]
    /\ UNCHANGED notCnVars

\* the caller has its answer
CnDeliver ==
    /\ cn.pc = "done"
    /\ cn' = CnRest
    /\ UNCHANGED notCnVars

CnNext ==
    \/ CnStart
    \/ CnApi
    \/ CnGoto
    \/ CnWait
    \/ CnExtract
    \/ CnReturn
    \/ CnDeliver

\* The calls of consultar_juriscopio, one at a time
\* the values of "seccion" a caller sends; JNull when the key is missing
SeccionInputs ==
    { JNull } \cup
    { JStr(s) : s \in { S_sentencias_causas, S_SENTENCIAS_CAUSAS, S_sentencias_guion_causas,
                        S_sentencias_barra_causas, S_causas, S_sentencias, S_autos,
                        S_seleccion_casos, S_admision, S_leyes } }

AmbitoInputs == { JNull, JStr(S_caso), JStr(S_sentencia), JStr(S_Sentencia), JStr(S_sentencias) }

\* the payloads of consultar_juriscopio
JuriscopioPayloads ==
    { Field(K_seccion, s) @@ Field(K_ambito, a) @@ Field(K_texto, t) @@ Field(K_size, z)
          @@ Field(K_detalle, d) :
          s \in SeccionInputs, a \in AmbitoInputs, t \in { JNull, JStr(<< "x" >>) },
          z \in { JNull, JInt(1) }, d \in { JNull, JBool(TRUE) } }

JscRest ==
    [pc |-> "idle", payload |-> EmptyDict, res |-> JuriscopioError(""), detalle |-> "none"]

JscIdle == jsc = JscRest

\* consultar_juriscopio is called with a payload
JscStart ==
    /\ jsc = JscRest
    /\ \E payload \in JuriscopioPayloads :
        jsc' = [JscRest EXCEPT !.pc = "search", !.payload = payload]
    /\ UNCHANGED notJscVars

\* judicial_connectors.py:1845-1858: the early returns, the search, and the
\* return of its result when no detail is asked for
JscSearch ==
    /\ jsc.pc = "search"
    /\ \E up \in JuriscopioUpstreams :
        LET res == consultar_juriscopio(jsc.payload, up)
        IN  jsc' = [jsc EXCEPT !.res = res,
                               !.pc = IF /\ res.error \notin
                                            { "Debe proporcionar un texto o numero para la consulta.",
                                              "Error general al consultar Juriscopio" }
                                         /\ Truthy(Get(jsc.payload, K_detalle))
                                      THEN "detalle" ELSE "done"]
    /\ UNCHANGED notJscVars

\* judicial_connectors.py:1860-1885: the file of the case is fetched and is
\* added to the result of the search, or the error of the fetch is
JscDetalle ==
    /\ jsc.pc = "detalle"
    /\ \E d \in { "detalle", "detalle_error" } :
        jsc' = [jsc EXCEPT !.pc = "done", !.detalle = d]
    /\ UNCHANGED notJscVars

\* the caller has the result
JscDeliver ==
    /\ jsc.pc = "done"
    /\ jsc' = JscRest
    /\ UNCHANGED notJscVars

JscNext ==
    \/ JscStart
    \/ JscSearch
    \/ JscDetalle
    \/ JscDeliver

(***************************************************************************)
(* The SATJE export: exportar_pdf_satje                                    *)
(***************************************************************************)
\* judicial_connectors.py:1605
RequiredKeys == << "idIncidenteJudicatura", "idJudicatura", "idMovimientoJuicioIncidente" >>

\* all(it.get(k) for k in required)
HasRequired(it) == \A i \in 1..Len(RequiredKeys) : Truthy(Get(it, RequiredKeys[i]))

\* "if v: norm[k] = v"
SetIf(d, k, v) == IF Truthy(v) THEN (k :> v) @@ d ELSE d

\* "if v: merged.setdefault(k, v)"
SetDefaultIf(d, k, v) == IF Truthy(v) /\ k \notin DOMAIN d THEN (k :> v) @@ d ELSE d

\* judicial_connectors.py:303-311: a child of "lstIncidenteJudicatura" takes
\* the court of the object that holds it
MergeChild(child, inc) ==
    SetDefaultIf(SetDefaultIf(SetDefaultIf(child, "idJudicatura", Get(inc, "idJudicatura")),
                              "idJudicatura", Get(inc, "idJudicaturaDestino")),
                 "nombreJudicatura", Get(inc, "nombreJudicatura"))

\* judicial_connectors.py:299-313; an element is [dict, top, lst]: whether it
\* is a mapping, its keys, and the mappings of its nested list
RECURSIVE Expand(_)
Expand(items) ==
    IF items = <<>> THEN <<>>
    ELSE (IF Head(items).lst # <<>>
          THEN [i \in 1..Len(Head(items).lst) |-> MergeChild(Head(items).lst[i], Head(items).top)]
          ELSE << Head(items).top >>)
         \o Expand(Tail(items))

\* judicial_connectors.py:318-356: the identifiers under their canonical keys
NormalizeIncidente(inc, informacion) ==
    SetIf(SetIf(SetIf(SetIf(SetIf(inc,
        "idMovimientoJuicioIncidente",
            _pick(inc, << "idMovimientoJuicioIncidente", "idMovimientoJuicio", "idMovimiento",
                          "id_movimiento", "idTablaReferencia", "tablaReferencia" >>)),
        "idIncidenteJudicatura",
            _pick(inc, << "idIncidenteJudicatura", "idIncidente", "id_incidente" >>)),
        "idJudicatura",
            Or(_pick(inc, << "idJudicatura", "idJudicaturaDestino", "id_judicatura" >>),
               Get(informacion, "idJudicatura"))),
        "incidente", _pick(inc, << "incidente", "numeroIncidente" >>)),
        "nombreJudicatura",
            Or(_pick(inc, << "nombreJudicatura", "nombreJudicaturaDestino", "nombre_judicatura",
                             "judicatura" >>),
               Get(informacion, "nombreJudicatura")))

IsMapping(it) == it.dict

\* judicial_connectors.py:282; raw is None, a mapping that holds the list
\* under a known key, a mapping that is the incident, a list, or a scalar
_normalize_incidente_list(raw, informacion) ==
    IF raw.kind \in { "none", "scalar" } THEN <<>>
    ELSE LET expanded == Expand(IF raw.kind = "dict" THEN raw.items
                                ELSE SelectSeq(raw.items, IsMapping))
         IN  [i \in 1..Len(expanded) |-> NormalizeIncidente(expanded[i], informacion)]

\* a list of mappings, as the second normalisation is given
AsList(incidencias) ==
    [kind |-> "list",
     items |-> [i \in 1..Len(incidencias) |-> [dict |-> TRUE, top |-> incidencias[i], lst |-> <<>>]]]

\* judicial_connectors.py:1606: next((it for it in incidencias if all(...)), incidencias[0])
RECURSIVE FirstWithRequired(_, _)
FirstWithRequired(incidencias, i) ==
    IF i > Len(incidencias) THEN incidencias[1]
    ELSE IF HasRequired(incidencias[i]) THEN incidencias[i]
    ELSE FirstWithRequired(incidencias, i + 1)

\* judicial_connectors.py:1607-1615
ActPayload(inc, id_juicio) ==
    [aplicativo |-> "web",
     idIncidenteJudicatura |-> Get(inc, "idIncidenteJudicatura"),
     idJudicatura |-> Get(inc, "idJudicatura"),
     idJuicio |-> StrOf(id_juicio),
     idMovimientoJuicioIncidente |-> Get(inc, "idMovimientoJuicioIncidente"),
     incidente |-> Or(Get(inc, "incidente"), JInt(1)),
     nombreJudicatura |-> Get(inc, "nombreJudicatura")]

\* judicial_connectors.py:1617: the required keys the payload lacks
Missing(act_payload) ==
    SelectSeq(RequiredKeys, LAMBDA k : ~Truthy(act_payload[k]))

\* judicial_connectors.py:1561-1566: the payload's value or 200, 200 when it
\* is no number, and 1 when it is below 1
MaxActuaciones(payload) ==
    IF ~IntOf(Or(Get(payload, "max_actuaciones"), JInt(DefaultMaxActuaciones))).ok
    THEN DefaultMaxActuaciones
    ELSE Max(1, IntOf(Or(Get(payload, "max_actuaciones"), JInt(DefaultMaxActuaciones))).i)

\* judicial_connectors.py:1557
ExportIdJuicio(payload) ==
    Or(Or(Get(payload, "idJuicio"), Get(payload, "id_juicio")), Get(payload, "numero_causa"))

\* judicial_connectors.py:1573-1577
PayloadIncidente(payload) ==
    ("idMovimientoJuicioIncidente" :>
        Or(Get(payload, "idMovimientoJuicioIncidente"), Get(payload, "id_movimiento")))
    @@ ("idIncidenteJudicatura" :>
        Or(Get(payload, "idIncidenteJudicatura"), Get(payload, "id_incidente")))
    @@ ("idJudicatura" :> Or(Get(payload, "idJudicatura"), Get(payload, "id_judicatura")))
    @@ ("incidente" :> Get(payload, "incidente"))
    @@ ("nombreJudicatura" :>
        Or(Get(payload, "nombreJudicatura"), Get(payload, "nombre_judicatura")))

\* the most actuaciones an upstream answers with
MaxActs == 2

\* the payloads of exportar_pdf_satje
ExportPayloads ==
    { Field("id_juicio", j) @@ Field("max_actuaciones", m)
          @@ Field("idMovimientoJuicioIncidente", mv) @@ Field("idIncidenteJudicatura", ic)
          @@ Field("idJudicatura", jd) :
          j \in { JNull, JStr(<<>>), JStr(S_causa) },
          m \in { JNull, JInt(0), JInt(-1), JInt(1), JStr(S_x) },
          mv \in { JNull, JInt(7) }, ic \in { JNull, JInt(8) }, jd \in { JNull, JInt(9) } }

\* what getInformacionJuicio answers
InformacionAnswers ==
    { [kind |-> "raise", d |-> EmptyDict], [kind |-> "scalar", d |-> EmptyDict],
      [kind |-> "dict", d |-> EmptyDict], [kind |-> "list", d |-> ("idJudicatura" :> JInt(9))] }

Mapping(top) == [dict |-> TRUE, top |-> top, lst |-> <<>>]

IncFull  == ("idMovimientoJuicioIncidente" :> JInt(7)) @@ ("idIncidenteJudicatura" :> JInt(8))
            @@ ("idJudicatura" :> JInt(9))
IncNoInc == ("idMovimientoJuicioIncidente" :> JInt(5)) @@ ("idJudicatura" :> JInt(9))
            @@ ("incidente" :> JInt(2))
IncNoJud == ("idMovimientoJuicioIncidente" :> JInt(6)) @@ ("idIncidenteJudicatura" :> JInt(8))
IncAlt   == ("idMovimiento" :> JInt(7)) @@ ("idIncidente" :> JInt(8))
            @@ ("idJudicaturaDestino" :> JInt(9))

\* what getIncidenteJudicatura answers
IncidenteAnswers ==
    { [kind |-> "raise", items |-> <<>>], [kind |-> "none", items |-> <<>>],
      [kind |-> "scalar", items |-> <<>>],
      [kind |-> "list", items |-> <<>>],
      [kind |-> "list", items |-> << Mapping(IncFull) >>],
      [kind |-> "list", items |-> << Mapping(IncNoInc), Mapping(IncFull) >>],
      [kind |-> "list", items |-> << Mapping(IncNoInc), Mapping(IncNoJud) >>],
      [kind |-> "list", items |-> << [dict |-> FALSE, top |-> EmptyDict, lst |-> <<>>],
                                     Mapping(IncNoJud) >>],
      [kind |-> "list", items |-> << [dict |-> TRUE, top |-> ("idJudicatura" :> JInt(9)),
                                      lst |-> << IncNoJud >>] >>],
      [kind |-> "dict_list", items |-> << Mapping(IncAlt) >>],
      [kind |-> "dict", items |-> << Mapping(IncFull) >>] }

\* what actuacionesJudiciales answers: a list, a mapping with the list, a
\* scalar, or the request raises
ActuacionesAnswers ==
    { [kind |-> "raise", acts |-> <<>>], [kind |-> "scalar", acts |-> <<>>],
      [kind |-> "dict", acts |-> Range(1, MaxActs)] }
    \cup { [kind |-> "list", acts |-> Range(1, n)] : n \in 0..MaxActs }

NoPdf == [kind |-> "none", written |-> <<>>, errores |-> <<>>, incidente |-> EmptyDict]

ExportRest ==
    [pc |-> "idle", payload |-> EmptyDict, max_actuaciones |-> 0, informacion |-> EmptyDict,
     incidencias |-> <<>>, actuaciones |-> <<>>, errores |-> <<>>, requests |-> <<>>,
     failed |-> {}, sent |-> EmptyDict, out |-> NoPdf]

ExportIdle == export = ExportRest

\* judicial_connectors.py:1557-1577: the id, or the error dict without it
ExportStart ==
    /\ export = ExportRest
    /\ \E payload \in ExportPayloads :
        export' = IF ~Truthy(ExportIdJuicio(payload))
                  THEN [ExportRest EXCEPT !.pc = "done", !.payload = payload,
                                          !.out = [NoPdf EXCEPT !.kind = "error"]]
                  ELSE [ExportRest EXCEPT !.pc = "informacion", !.payload = payload,
                                          !.max_actuaciones = MaxActuaciones(payload)]
    /\ UNCHANGED notExportVars

\* judicial_connectors.py:1579-1588
ExportInformacion ==
    /\ export.pc = "informacion"
    /\ \E a \in InformacionAnswers :
        export' = [export EXCEPT
            !.pc = "incidencias",
            !.requests = Append(@, "informacion"),
            !.informacion = IF a.kind \in { "dict", "list" } THEN a.d ELSE EmptyDict,
            !.failed = IF a.kind = "raise" THEN @ \cup { "informacion" } ELSE @,
            !.errores = IF a.kind = "raise"
                        THEN Append(@, "No se pudo obtener informacion del juicio") ELSE @]
    /\ UNCHANGED notExportVars

\* judicial_connectors.py:1590-1601: the incident of the payload, or the
\* incidents of the upstream
ExportIncidencias ==
    /\ export.pc = "incidencias"
    /\ IF /\ Truthy(PayloadIncidente(export.payload)["idMovimientoJuicioIncidente"])
          /\ Truthy(PayloadIncidente(export.payload)["idJudicatura"])
       THEN export' = [export EXCEPT !.pc = "actuaciones",
                                     !.incidencias = << PayloadIncidente(export.payload) >>]
       ELSE \E a \in IncidenteAnswers :
              export' = [export EXCEPT
                  !.pc = "actuaciones",
                  !.requests = Append(@, "incidencias"),
                  !.incidencias = IF a.kind = "raise" THEN <<>>
                                  ELSE _normalize_incidente_list(a, export.informacion),
                  !.failed = IF a.kind = "raise" THEN @ \cup { "incidencias" } ELSE @,
                  !.errores = IF a.kind = "raise"
                              THEN Append(@, "No se pudieron obtener incidencias") ELSE @]
    /\ UNCHANGED notExportVars

\* judicial_connectors.py:1603-1630
ExportActuaciones ==
    /\ export.pc = "actuaciones"
    /\ IF export.incidencias = <<>>
       THEN export' = [export EXCEPT
                !.pc = "build",
                !.errores = Append(@, "No se encontraron incidencias para este juicio.")]
       ELSE LET incidencias == _normalize_incidente_list(AsList(export.incidencias),
                                                         export.informacion)
                act_payload == ActPayload(FirstWithRequired(incidencias, 1),
                                          ExportIdJuicio(export.payload))
            IN  IF Missing(act_payload) # <<>>
                THEN export' = [export EXCEPT
                         !.pc = "build", !.incidencias = incidencias,
                         !.errores = Append(@, "Faltan campos para actuaciones")]
                ELSE \E a \in ActuacionesAnswers :
                       export' = [export EXCEPT
                           !.pc = "build", !.incidencias = incidencias,
                           !.requests = Append(@, "actuaciones"),
                           !.sent = act_payload,
                           !.actuaciones = a.acts,
                           !.failed = IF a.kind = "raise" THEN @ \cup { "actuaciones" } ELSE @,
                           !.errores = IF a.kind = "raise"
                                       THEN Append(@, "No se pudieron obtener actuaciones")
                                       ELSE @]
    /\ UNCHANGED notExportVars

\* judicial_connectors.py:1632-1645 and _build_satje_pdf (177-247): the first
\* incident, the first max_actuaciones actuaciones and the errors are written
ExportBuild ==
    /\ export.pc = "build"
    /\ export' = [export EXCEPT
           !.pc = "done",
           !.out = [kind |-> "pdf",
                    written |-> Take(export.actuaciones, export.max_actuaciones),
                    errores |-> export.errores,
                    incidente |-> IF export.incidencias = <<>> THEN EmptyDict
                                  ELSE export.incidencias[1]]]
    /\ UNCHANGED notExportVars

\* the caller has the result
ExportDeliver ==
    /\ export.pc = "done"
    /\ export' = ExportRest
    /\ UNCHANGED notExportVars

ExportNext ==
    \/ ExportStart
    \/ ExportInformacion
    \/ ExportIncidencias
    \/ ExportActuaciones
    \/ ExportBuild
    \/ ExportDeliver

\* the link service before its first request
LinkIdle ==
    /\ DOWNLOAD_TOKEN_SECRET = Strip(<< "k", " " >>)
    /\ connectorsLoaded = TRUE
    /\ clock = TicksPerSecond
    /\ issued = NoIssue
    /\ resp = NoResp

JurisInit == LinkIdle /\ JurisIdle /\ GlobalIdle /\ FwIdle /\ NormIdle /\ ScrapeIdle /\ CnIdle /\ JscIdle /\ ExportIdle

\* The jurisprudence query alone
SpecJuris == JurisInit /\ [][JurisNext]_vars

\* The whole service
Init == LinkInit /\ JurisIdle /\ GlobalIdle /\ FwIdle /\ NormIdle /\ ScrapeIdle /\ CnIdle /\ JscIdle /\ ExportIdle

Next == ExportNext \/ JscNext \/ CnNext \/ ScrapeNext \/ LinkNext \/ JurisNext \/ GlobalNext \/ FwNext \/ NormNext

Spec == Init /\ [][Next]_vars

LinksInit == LinkInit /\ JurisIdle /\ GlobalIdle /\ FwIdle /\ NormIdle /\ ScrapeIdle /\ CnIdle /\ JscIdle /\ ExportIdle

\* the aggregating endpoints alone; the connectors were imported or not
GlobalInit ==
    /\ DOWNLOAD_TOKEN_SECRET = Strip(<< "k", " " >>)
    /\ connectorsLoaded \in BOOLEAN
    /\ clock = TicksPerSecond
    /\ issued = NoIssue
    /\ resp = NoResp
    /\ JurisIdle
    /\ GlobalIdle
    /\ FwIdle
    /\ NormIdle /\ ScrapeIdle /\ CnIdle /\ JscIdle /\ ExportIdle

SpecGlobal == GlobalInit /\ [][GlobalNext]_vars

\* the FielWeb connector alone, with credentials set or not
FwInit ==
    /\ LinkIdle
    /\ JurisIdle
    /\ GlobalIdle
    /\ fw = [r \in Workers |-> FwRest]
    /\ established = FALSE
    /\ fcreds \in BOOLEAN
    /\ NormIdle /\ ScrapeIdle /\ CnIdle /\ JscIdle /\ ExportIdle

SpecFielweb == FwInit /\ [][FwNext]_vars

\* the mapper of the sentence records alone
NormInit == LinkIdle /\ JurisIdle /\ GlobalIdle /\ FwIdle /\ NormIdle /\ ScrapeIdle /\ CnIdle /\ JscIdle /\ ExportIdle

SpecNormalize == NormInit /\ [][NormNext]_vars

ScrapeInit == LinkIdle /\ JurisIdle /\ GlobalIdle /\ FwIdle /\ NormIdle /\ ScrapeIdle /\ CnIdle /\ JscIdle /\ ExportIdle

SpecScrape == ScrapeInit /\ [][ScrapeNext]_vars

HybridInit == LinkIdle /\ JurisIdle /\ GlobalIdle /\ FwIdle /\ NormIdle /\ ScrapeIdle /\ CnIdle /\ JscIdle /\ ExportIdle

SpecHybrid == HybridInit /\ [][CnNext]_vars

JuriscopioInit == LinkIdle /\ JurisIdle /\ GlobalIdle /\ FwIdle /\ NormIdle /\ ScrapeIdle /\ CnIdle /\ JscIdle /\ ExportIdle

SpecJuriscopio == JuriscopioInit /\ [][JscNext]_vars

ExportInit == LinkIdle /\ JurisIdle /\ GlobalIdle /\ FwIdle /\ NormIdle /\ ScrapeIdle /\ CnIdle /\ JscIdle /\ ExportIdle

SpecExport == ExportInit /\ [][ExportNext]_vars

\* The link service alone
SpecLinks == LinksInit /\ [][LinkNext]_vars

(***************************************************************************)
(* Properties of the link service                                          *)
(***************************************************************************)
IsMint    == resp.endpoint \in { "fielweb_download_link", "satje_export_pdf_link" }
IsResolve == resp.endpoint \in { "fielweb_download", "satje_export_pdf" }

\* the request being answered redeems the issued token, unmodified
RedeemsIssued == IsResolve /\ issued.token # NoToken /\ resp.presented = issued.token

IssuedExp == issued.payload[K_exp].i

\* C1: a minted token, unmodified, verified with the same secret at a time
\* not later than its exp, is accepted and the payload returned is the payload
\* that was signed; the resolve endpoints hand exactly that payload on.
C1_RoundTrip ==
    (issued.token # NoToken /\ ~TimeAfter(clock, IssuedExp)) =>
        /\ _verify_download_token(issued.token, DOWNLOAD_TOKEN_SECRET, clock)
               = Returned(issued.payload)
        /\ (RedeemsIssued /\ connectorsLoaded) =>
               (resp.verified /\ resp.payload = issued.payload)

C1_Witness ==
    /\ RedeemsIssued
    /\ ~TimeAfter(clock, IssuedExp)
    /\ resp.verified
    /\ resp.kind = "ok"
    /\ resp.payload = issued.payload

\* C2: a token that differs from a minted one in its payload part or in its
\* signature part is rejected with the invalid-token error.
C2_TamperRejected ==
    (/\ IsResolve
     /\ connectorsLoaded
     /\ issued.token # NoToken
     /\ resp.presented.dot
     /\ resp.presented # issued.token
     /\ (resp.presented.body # issued.token.body \/ resp.presented.sig # issued.token.sig))
    => (resp.kind = "http" /\ resp.status = 401 /\ resp.detail = "Token de descarga invalido.")

\* C3: a resolve of a minted token at a time strictly later than its exp fails
\* with the expiry error and the connector is not called.
C3_ExpiredRejected ==
    (RedeemsIssued /\ connectorsLoaded /\ TimeAfter(clock, IssuedExp))
    => (/\ resp.status = 401
        /\ resp.detail = "Token de descarga expirado."
        /\ resp.call = NoCall)

\* C4: a token minted with ttl_seconds = 0 is expired one second after minting.
C4_ZeroTtlExpires ==
    (/\ RedeemsIssued
     /\ connectorsLoaded
     /\ Get(issued.input, K_ttl_seconds) = JInt(0)
     /\ clock >= issued.at + TicksPerSecond)
    => resp.detail = "Token de descarga expirado."

\* the payload part of the presented token carries a signature made with the
\* server secret
SignatureValid(token) ==
    /\ token.dot
    /\ _b64url_decode(token.body).ok
    /\ token.sig = hmac_hexdigest(Utf8Encode(DOWNLOAD_TOKEN_SECRET), _b64url_decode(token.body).bytes)

\* C5: the connector is invoked only after verification succeeded: never for a
\* token whose signature is invalid or whose expiry has passed.
C5_CallOnlyIfValid ==
    (IsResolve /\ resp.call # NoCall) =>
        /\ resp.verified
        /\ SignatureValid(resp.presented)
        /\ ~TimeAfter(clock, Get(resp.payload, K_exp).i)

\* a mint request that succeeds once a secret is configured
OtherwiseValid ==
    \/ /\ resp.endpoint = "fielweb_download_link"
       /\ fielweb_download_link(resp.input, OtherKey, clock).kind = "ok"
    \/ /\ resp.endpoint = "satje_export_pdf_link"
       /\ satje_export_pdf_link(resp.input, OtherKey, clock).kind = "ok"

\* C6: with an empty DOWNLOAD_TOKEN_SECRET every mint request with otherwise
\* valid input and every resolve request ends in HTTP 500: no token is issued,
\* none is verified, no connector is called.
C6_NoSecretHardFailure ==
    DOWNLOAD_TOKEN_SECRET = <<>> =>
        /\ issued = NoIssue
        /\ (IsMint => resp.token = NoToken)
        /\ (IsMint /\ OtherwiseValid) => resp.status = 500
        /\ IsResolve => (resp.status = 500 /\ ~resp.verified /\ resp.call = NoCall)

C6_Witness ==
    /\ DOWNLOAD_TOKEN_SECRET = <<>>
    /\ IsMint
    /\ OtherwiseValid
    /\ resp.detail = "DOWNLOAD_TOKEN_SECRET no configurado."

(***************************************************************************)
(* Properties of the aggregated query                                      *)
(***************************************************************************)
HasUrl(r) == r.url # EmptyUrl /\ r.url # NoKey

\* the list handed to the merge step: what each source returned, or the error
\* entry appended for a source that raised, in the order of invocation
RECURSIVE Collected(_, _)
Collected(log, n) ==
    IF n = 0 THEN <<>>
    ELSE Collected(log, n - 1)
         \o (IF log[n].raised THEN << ErrorRec(log[n].fuente, "No disponible") >> ELSE log[n].recs)

PreMerge == Collected(jlog, Len(jlog))

Answered == jpc = "idle" /\ jresp.kind = "ok"

\* C7: the final 'resultado' holds no two records with the same non-empty url.
C7_NoDuplicateUrl ==
    Answered =>
        \A i, j \in 1..Len(jresp.resultado) :
            (i # j /\ HasUrl(jresp.resultado[i])) => jresp.resultado[i].url # jresp.resultado[j].url

\* two records of the collected list share a url and the answer holds it
C7_Witness ==
    /\ Answered
    /\ \E i, j \in 1..Len(PreMerge) :
        /\ i < j
        /\ HasUrl(PreMerge[i])
        /\ PreMerge[i].url = PreMerge[j].url
        /\ \E k \in 1..Len(jresp.resultado) : jresp.resultado[k].url = PreMerge[i].url

\* source + title + date
Composite(r) == << r.fuente, r.titulo, r.fecha >>

\* C8: in the merge step a record without url is kept unless an earlier record
\* has the same composite key source + title + date.
C8_UrlLessKept ==
    (jpending.kind = "return" /\ jmode = "jurisprudencia") =>
        \A i \in 1..Len(PreMerge) :
            (/\ ~HasUrl(PreMerge[i])
             /\ \A j \in 1..(i - 1) : Composite(PreMerge[j]) # Composite(PreMerge[i]))
            => \E k \in 1..Len(resultados) : resultados[k] = PreMerge[i]

\* the position in the order of invocation of the first source that returned
\* a record with url u
FirstSourceOf(u) ==
    CHOOSE a \in 1..Len(jlog) :
        /\ \E r \in 1..Len(jlog[a].recs) : jlog[a].recs[r].url = u
        /\ \A b \in 1..(a - 1) : \A r \in 1..Len(jlog[b].recs) : jlog[b].recs[r].url # u

\* the urls that two sources of the query returned
SharedUrls ==
    { u \in 1..(MaxUrl + 1) :
        \E a, b \in 1..Len(jlog) :
            /\ a < b
            /\ \E r \in 1..Len(jlog[a].recs) : jlog[a].recs[r].url = u
            /\ \E r \in 1..Len(jlog[b].recs) : jlog[b].recs[r].url = u }

\* the position at which url u is first seen in the collected list
FirstPos(u) == CHOOSE i \in 1..Len(PreMerge) :
                   PreMerge[i].url = u /\ \A j \in 1..(i - 1) : PreMerge[j].url # u

\* list keeps exactly one record for every shared url, the one of the first
\* source, and its records are in first-seen order
KeepsFirst(list) ==
    /\ \A u \in SharedUrls :
        /\ Cardinality({ k \in 1..Len(list) : list[k].url = u }) = 1
        /\ \A k \in 1..Len(list) :
            list[k].url = u =>
                \E r \in 1..Len(jlog[FirstSourceOf(u)].recs) : jlog[FirstSourceOf(u)].recs[r] = list[k]
    /\ \A i, j \in 1..Len(list) :
        i < j => FirstPos(list[i].url) < FirstPos(list[j].url)

\* C9 as stated, of the answer: when two sources return records with the same
\* non-empty url the result keeps exactly one of them, that of the source
\* invoked first, and the kept records are in first-seen order.
C9_KeepsFirstInAnswer ==
    (Answered /\ jmode = "jurisprudencia") => KeepsFirst(jresp.resultado)

\* C9: when two sources return records with the same non-empty url the
\* deduplicated list keeps exactly one of them, that of the source invoked
\* first, its records are in first-seen order, and the answer is the first
\* MAX_ITEMS records of that list.
C9_KeepsFirstBeforeTruncation ==
    /\ (jpending.kind = "return" /\ jmode = "jurisprudencia") => KeepsFirst(resultados)
    /\ Answered => jresp.resultado = Take(resultados, MAX_ITEMS)

\* a shared url was first seen after MAX_ITEMS records and the answer was cut
C9_Witness ==
    /\ Answered
    /\ jmode = "jurisprudencia"
    /\ \E u \in SharedUrls :
        /\ \E k \in 1..Len(resultados) : k > MAX_ITEMS /\ resultados[k].url = u
        /\ \A k \in 1..Len(jresp.resultado) : jresp.resultado[k].url # u
    /\ \E u \in SharedUrls : \E k \in 1..Len(jresp.resultado) : jresp.resultado[k].url = u

IsErrorOf(r, fuente) == r.error # "" /\ r.fuente = fuente

\* C10: for every source whose search raises, the answer of the aggregated
\* query holds exactly one error entry naming that source, and the records of
\* every source that succeeded are still in the answer.
C10_ErrorEntryPerFailedSource ==
    (Answered /\ jmode = "jurisprudencia") =>
        \A a \in 1..Len(jlog) :
            IF jlog[a].raised
            THEN Cardinality({ k \in 1..Len(jresp.resultado) :
                                 IsErrorOf(jresp.resultado[k], jlog[a].fuente) }) = 1
            ELSE \A r \in 1..Len(jlog[a].recs) :
                    HasUrl(jlog[a].recs[r]) =>
                        \E k \in 1..Len(jresp.resultado) :
                            jresp.resultado[k].url = jlog[a].recs[r].url

(***************************************************************************)
(* Properties of the aggregating endpoints                                 *)
(***************************************************************************)
\* a handler has answered and the answer has not left yet
GAnswered(endpoint) == gpc = "idle" /\ gresp.endpoint = endpoint

\* the calls of the request that went upstream and failed there
FailedCalls == { i \in 1..Len(gcalls) : gcalls[i].upstream /\ gcalls[i].out.kind \in { "raise", "error" } }

\* the keys of "fuentes" under which consult_global files a source
KeysOf(fuente) ==
    IF fuente = "juriscopio"
    THEN { "juriscopio", "juriscopio_casos", "juriscopio_sentencias" }
    ELSE { fuente }

IsErrorEntry(e) == "error" \in DOMAIN e

\* the body names this source as failed: consult_global files an entry with
\* "error" under a key of the source; the body of consult_hybrid
\* (main.py:461-471) has no field for an error, and the detail of its
\* HTTP 500 (main.py:475) names no source
HasErrorEntryFor(answer, fuente) ==
    /\ answer.endpoint = "consult_global"
    /\ \E key \in KeysOf(fuente) \cap DOMAIN answer.fuentes :
          \E k \in 1..Len(answer.fuentes[key]) : IsErrorEntry(answer.fuentes[key][k])

\* C11: in consult_global and consult_hybrid, for every enabled source whose
\* connector raised or returned an error dict, the response holds an error
\* entry that identifies that source.
C11_FailedSourceReported ==
    (GAnswered("consult_global") \/ GAnswered("consult_hybrid")) =>
        \A i \in FailedCalls : HasErrorEntryFor(gresp, gcalls[i].fuente)

\* the order in which consult_global runs its sources (main.py:521-593)
GlobalOrder == << "fielweb", "juriscopio", "corte_nacional", "jurisprudencia", "uafe" >>

OrderOf(fuente) == CHOOSE i \in 1..Len(GlobalOrder) : GlobalOrder[i] = fuente

CallsOf(fuente) == { i \in 1..Len(gcalls) : gcalls[i].fuente = fuente }

SourceRaised(fuente) == \E i \in CallsOf(fuente) : gcalls[i].out.kind = "raise"

\* the reference a filed item carries of the item the connector returned
ItemOf(e) ==
    IF "norma_id" \in DOMAIN e THEN e.norma_id
    ELSE IF "id" \in DOMAIN e THEN e.id
    ELSE IF "row" \in DOMAIN e THEN e.row
    ELSE 0

\* the answer files this item under a key of this source
Included(answer, fuente, item) ==
    \E key \in KeysOf(fuente) \cap DOMAIN answer.fuentes :
        \E k \in 1..Len(answer.fuentes[key]) : ItemOf(answer.fuentes[key][k]) = item

\* every call of the source went through and the first "limit" items of each
\* are in the answer
InvokedAndIncluded(answer, fuente) ==
    /\ CallsOf(fuente) # {}
    /\ ~SourceRaised(fuente) =>
          \A i \in CallsOf(fuente) :
              \A k \in 1..Len(Take(gcalls[i].out.resultado, greq.limit)) :
                  Included(answer, fuente, gcalls[i].out.resultado[k])

\* C12: in consult_global with a non-empty text a connector exception never
\* aborts the request: the answer is the success envelope, and every enabled
\* source that comes after a source whose call raised was still invoked and
\* has its results in the answer.
C12_ExceptionDoesNotAbort ==
    GAnswered("consult_global") /\ greq.texto # <<>> =>
        /\ gresp.kind = "success"
        /\ gresp.status = 200
        /\ \A f \in Elems(GlobalOrder), g \in Elems(GlobalOrder) :
              (SourceRaised(f) /\ OrderOf(g) > OrderOf(f) /\ SourceName(g) \in Elems(greq.fuentes)
                  /\ connectorsLoaded)
                  => InvokedAndIncluded(gresp, g)

\* C12 witness: an answered consult_global in which FielWeb raised and a later
\* source returned items that the answer holds.
C12_Witness ==
    /\ GAnswered("consult_global")
    /\ gresp.kind = "success"
    /\ SourceRaised("fielweb")
    /\ \E i \in CallsOf("corte_nacional") :
          /\ gcalls[i].out.resultado # <<>>
          /\ Included(gresp, "corte_nacional", gcalls[i].out.resultado[1])
    /\ SourceRaised("jurisprudencia")
    /\ \E i \in CallsOf("uafe") : gcalls[i].out.kind = "ok"

\* the endpoints whose query needs a search text
TextEndpoints ==
    { "consult_global", "consult_hybrid", "consult_real_fielweb", "consult_real_jurisprudencia" }

\* C13: for every entry point that requires a search text, an empty or
\* whitespace-only text makes no upstream call and the answer is an error,
\* not a success response.
C13_EmptyTextRejected ==
    (gpc = "idle" /\ gresp.endpoint \in TextEndpoints /\ Strip(greq.texto) = <<>>) =>
        /\ \A i \in 1..Len(gcalls) : ~gcalls[i].upstream
        /\ gresp.kind = "error"

(***************************************************************************)
(* Properties of the FielWeb connector                                     *)
(***************************************************************************)
\* how many requests to this path the request has sent
CountSent(w, path) == Cardinality({ i \in 1..Len(w.sent) : w.sent[i].path = path })

AuthenticatedPaths == { "buscar", "generarDOC" }

CountAuthenticated(w) ==
    Cardinality({ i \in 1..Len(w.sent) : w.sent[i].path \in AuthenticatedPaths })

\* an authenticated call of the request was answered 401 or 403
WasUnauthorized(w) ==
    \E i \in 1..Len(w.sent) :
        w.sent[i].path \in AuthenticatedPaths /\ w.sent[i].answer \in Unauthorized

\* C14: when an authenticated FielWeb call is answered 401 or 403, the request
\* signs in once more and sends the call once more before it reports the
\* failure, and no request signs in more than twice.
C14_ReauthOnceThenFail ==
    \A r \in Workers :
        /\ CountSent(fw[r], "signin") <= 2
        /\ (fw[r].pc = "done" /\ WasUnauthorized(fw[r])) =>
              /\ CountSent(fw[r], "signin") = 2
              /\ CountAuthenticated(fw[r]) = 2

HandshakePaths == << "Login.aspx", "signin", "aceptoTerminosCondiciones", "traerUsuario" >>

\* C15: the FielWeb session is created on first use and cached: while a
\* session is established (a handshake has completed and no 401/403 has
\* invalidated it), a request that starts does not enter the handshake.
C15_SessionReused ==
    [][\A r \in Workers :
          (established /\ fw[r].pc = "idle") => fw'[r].pc # "visit_login"]_vars

\* the positions of a request inside _login_and_token
HandshakePcs == { "visit_login", "signin", "accept_terms", "traer_usuario" }

\* C17: of the FielWeb requests that run at once, at most one is inside the
\* handshake at any time.
C17_OneHandshakeAtATime ==
    Cardinality({ r \in Workers : fw[r].pc \in HandshakePcs }) <= 1

\* the answer tells that the step failed: an HTTP error status, a body that
\* is no JSON object, or, for sign-in, "Respuesta" false
StepFailed(e) ==
    \/ e.answer.status >= 400
    \/ ~e.answer.json
    \/ (e.path = "signin" /\ ~e.answer.respuesta)

IsHandshakeStep(e) == e.path \in { "signin", "aceptoTerminosCondiciones", "traerUsuario" }

JurisReturned == jpc = "idle" /\ jmode # "none"

\* C18: when _buscar_juris_async or _buscar_fuente_individual returns or
\* raises, the browser it launched and the context it created have been
\* closed, whichever way it ends: search done, exception in the search,
\* new_context or new_page failing, context.close() failing.
C18_BrowserAndContextClosed ==
    JurisReturned =>
        /\ browser \in {"none", "closed"}
        /\ context \in {"none", "closed"}


\* C19: every call that goes to an upstream while a request is served runs
\* on the thread pool and never on the event loop, whatever the endpoint.
C19_UpstreamOffEventLoop ==
    \A i \in 1..Len(gcalls) :
        gcalls[i].upstream => gcalls[i].on = "threadpool"


(***************************************************************************)
(* Properties of the mapper of the sentence records                        *)
(***************************************************************************)
NormRan == nitems # <<>>

\* the record the mapper read and the date it gave it
NormRecord == SentenciaOf(nitems[1])

NormFecha == nmapped[1].fecha

\* the key is present in the record and its value is not None, "" or []
IsSet(d, k) == k \in DOMAIN d /\ d[k] \notin { JNull, JStr(<<>>), JList(0) }

\* the position of the first date key that is set, if there is one
FirstSet(d) ==
    { i \in 1..Len(DateKeys) :
        /\ IsSet(d, DateKeys[i])
        /\ \A j \in 1..(i - 1) : ~IsSet(d, DateKeys[j]) }

\* the calendar days of EpochOf(1), ..., EpochOf(4), in UTC
EpochDates ==
    << [year |-> 2020, month |-> 10, day |-> 23], [year |-> 2020, month |-> 12, day |-> 2],
       [year |-> 2021, month |-> 1,  day |-> 11], [year |-> 2021, month |-> 2,  day |-> 20] >>

\* t is the text cs without the blanks around it
StrippedOf(cs, t) ==
    /\ t = <<>> \/ (t[1] # " " /\ t[Len(t)] # " ")
    /\ \E p, q \in 0..Len(cs) : cs = Blanks(p) \o t \o Blanks(q)

\* the date that the value v, found under the i-th key, stands for: a text
\* without the blanks around it, an epoch number as YYYY-MM-DD
IsDateOf(t, i, v) ==
    IF v.t = "str" THEN StrippedOf(v.s, t) ELSE t = strftime(EpochDates[i])

OnlySet(d, i) == \A j \in 1..Len(DateKeys) : IsSet(d, DateKeys[j]) <=> j = i

MapperRan == mrun.mapper # "none"

\* the fields of the record that come from the upstream item
UpstreamFields == DOMAIN mrun.record \ { "fuente" }

\* the item holds none of the keys the mappers read
EmptyItem == DOMAIN mrun.item.node = {} /\ DOMAIN mrun.item.top = {}

\* C21: in the record a mapper makes, a field whose upstream key is absent is
\* the empty string and never null: no field is null (the items hold no null),
\* and of an item without keys every field but the default title is "".
C21_AbsentFieldIsEmptyString ==
    MapperRan =>
        \A f \in UpstreamFields :
            /\ mrun.record[f] # JNull
            /\ (EmptyItem /\ f # "titulo") => mrun.record[f] = JStr(<<>>)


\* C22: the free-text description of a normalized record is at most 400
\* characters long, whatever the length of the upstream text.
C22_DescriptionTruncated ==
    MapperRan => Len(mrun.record.descripcion.s) <= DescMax


\* the entries of the FielWeb list that belong to section sec
OfSection(list, sec) == { k \in 1..Len(list) : list[k].seccion = sec }

\* C23: in an answer of consult_global with limit_por_fuente >= 1 every list
\* of 'fuentes' has at most limit_por_fuente entries; the FielWeb list has at
\* most limit_por_fuente entries per requested section and at most
\* limit_por_fuente * number of sections in all.
C23_LimitPerSource ==
    (GAnswered("consult_global") /\ gresp.kind = "success" /\ greq.limit >= 1) =>
        /\ \A key \in DOMAIN gresp.fuentes \ { "fielweb" } : Len(gresp.fuentes[key]) <= greq.limit
        /\ "fielweb" \in DOMAIN gresp.fuentes =>
              /\ Len(gresp.fuentes["fielweb"]) <= greq.limit * Len(greq.secciones)
              /\ \A sec \in Elems(greq.secciones) :
                    Cardinality(OfSection(gresp.fuentes["fielweb"], sec)) <= greq.limit

\* an answer with limit 1 in which an upstream of FielWeb and the upstream of
\* jurisprudencia returned more items than the limit; the lists are cut
C23_Witness ==
    /\ GAnswered("consult_global")
    /\ gresp.kind = "success"
    /\ greq.limit = 1
    /\ Len(greq.secciones) = 2
    /\ { "fielweb", "jurisprudencia" } \subseteq DOMAIN gresp.fuentes
    /\ \A i \in CallsOf("fielweb") : Len(gcalls[i].out.resultado) > greq.limit
    /\ Len(gresp.fuentes["fielweb"]) = 2
    /\ \E i \in CallsOf("jurisprudencia") : Len(gcalls[i].out.resultado) > greq.limit
    /\ Len(gresp.fuentes["jurisprudencia"]) = 1


(***************************************************************************)
(* Properties of the scrape adapters                                       *)
(***************************************************************************)
\* the adapter has looked for both controls
ControlsSought == scrape.pc \in { "check", "search", "done" } /\ scrape.out.kind # "raise"

\* sel is the first selector of the list that the page matches, or
\* NoSelector when it matches none
IsFirstMatch(sel, found, selectors) ==
    IF \E i \in 1..Len(selectors) : found[i] = "match"
    THEN \E i \in 1..Len(selectors) :
            /\ found[i] = "match"
            /\ sel = selectors[i]
            /\ \A j \in 1..(i - 1) : found[j] # "match"
    ELSE sel = NoSelector

NoQueryControl == \A i \in 1..Len(scrape.page.q) : scrape.page.q[i] # "match"

NoSubmitControl == \A i \in 1..Len(scrape.page.b) : scrape.page.b[i] # "match"

\* C24: a scrape adapter takes for each control the first selector of its
\* list that matches, and when no selector of the query list or of the submit
\* list matches, its search ends in an error, not in a normal result.
C24_DriftIsAnError ==
    /\ ControlsSought =>
          /\ IsFirstMatch(scrape.q_sel, scrape.page.q, QuerySelectors(scrape.adapter))
          /\ IsFirstMatch(scrape.b_sel, scrape.page.b, SubmitSelectors(scrape.adapter))
    /\ (scrape.pc = "done" /\ ControlsSought /\ (NoQueryControl \/ NoSubmitControl)) =>
          scrape.out.kind = "raise"


Attempted(strategy) == \E i \in 1..Len(cn.trace) : cn.trace[i] = strategy

CnReturned == cn.pc \in { "returned", "done" }

Verifying == IsResolve /\ connectorsLoaded /\ ~SecretMissing(DOWNLOAD_TOKEN_SECRET)

BodyBytes(token) == _b64url_decode(token.body)

\* a string that is no token: no ".", a payload part that is not base64url,
\* a signature part with a non-ASCII character, a payload part that is not
\* JSON
Malformed(token) ==
    \/ ~token.dot
    \/ ~BodyBytes(token).ok
    \/ token.sig.kind = "nonascii"
    \/ ~Utf8Decode(BodyBytes(token).bytes).ok
    \/ ~JsonLoads(Utf8Decode(BodyBytes(token).bytes).text).ok

\* C26: a malformed token presented to a resolve endpoint is answered with the
\* invalid-token error, HTTP 400 or 401, never with an exception that nobody
\* handles, and the connector is not called.
C26_MalformedTokenIsInvalid ==
    (Verifying /\ Malformed(resp.presented)) =>
        /\ resp.kind = "http"
        /\ resp.status \in { 400, 401 }
        /\ resp.detail = "Token de descarga invalido."
        /\ resp.call = NoCall


\* the token a mint endpoint issued is redeemed, unmodified, at the resolve
\* endpoint of the other service
CrossRedeemed ==
    /\ RedeemsIssued
    /\ \/ issued.endpoint = "satje_export_pdf_link" /\ resp.endpoint = "fielweb_download"
       \/ issued.endpoint = "fielweb_download_link" /\ resp.endpoint = "satje_export_pdf"

\* C27: a token minted by one artifact service and redeemed at the other
\* passes the verification there (one secret, no audience field), and yet
\* the request ends in an error response and no upstream request is made.
C27_CrossServiceTokenReachesNoUpstream ==
    CrossRedeemed =>
        /\ (connectorsLoaded /\ ~TimeAfter(clock, IssuedExp)) => resp.verified
        /\ resp.kind = "http"
        /\ resp.status >= 400
        /\ ~resp.call.upstream

\* a FielWeb token accepted by GET /satje/export_pdf: exportar_pdf_satje is
\* entered and answers its error before any request
C27_Witness ==
    /\ CrossRedeemed
    /\ resp.endpoint = "satje_export_pdf"
    /\ resp.verified
    /\ resp.call.fn = "exportar_pdf_satje"
    /\ resp.status = 502


JscReturned == jsc.pc \in { "detalle", "done" }

\* the payload names the section the aggregating handler names, and the
\* search was reached
SentenciasCausas ==
    /\ JscReturned
    /\ Get(jsc.payload, K_seccion) = JStr(S_sentencias_causas)
    /\ JuriscopioTexto(jsc.payload) # <<>>

\* C28: a payload whose seccion is "sentencias_causas" is routed to the
\* Sentencias search when its ambito is "sentencia" and to the Causas search
\* otherwise, and never ends in the unknown-section error.
C28_SentenciasCausasRouted ==
    SentenciasCausas =>
        /\ jsc.res.error # "Seccion Juriscopio desconocida"
        /\ jsc.res.api = IF JuriscopioAmbito(jsc.payload) \in { S_sentencia, S_sentencias }
                         THEN "sentencia/100_BUSCR_SNTNCIA" ELSE "causa/buscar"


\* the request names this source in "usar_fuentes", in any case of letters,
\* or sends no list
Named(fuente) ==
    \/ greq.usar = <<>>
    \/ \E i \in 1..Len(greq.usar) : Lower(greq.usar[i]) = SourceName(fuente)

\* C29: in consult_global a source that "usar_fuentes" does not name is
\* never invoked and has no key in "fuentes"; a request without
\* "usar_fuentes" has all five sources invoked; every source that is named
\* is invoked once the handler has answered, and the calls follow the order
\* fielweb, juriscopio, corte_nacional, jurisprudencia, uafe.
C29_OnlyNamedSourcesInOrder ==
    greq.endpoint = "consult_global" =>
        /\ \A f \in Elems(GlobalOrder) :
              ~Named(f) => /\ CallsOf(f) = {}
                           /\ KeysOf(f) \cap DOMAIN gfuentes = {}
                           /\ KeysOf(f) \cap DOMAIN gresp.fuentes = {}
        /\ \A i \in 1..Len(gcalls) : gcalls[i].fuente \in Elems(GlobalOrder)
        /\ \A i \in 1..Len(gcalls), j \in 1..Len(gcalls) :
              i < j => OrderOf(gcalls[i].fuente) <= OrderOf(gcalls[j].fuente)
        /\ (GAnswered("consult_global") /\ gresp.kind = "success" /\ connectorsLoaded) =>
              \A f \in Elems(GlobalOrder) :
                  Named(f) => /\ CallsOf(f) # {}
                              /\ KeysOf(f) \cap DOMAIN gresp.fuentes # {}

\* "usar_fuentes": ["UAFE", "juriscopio"]: Juriscopio is called before
\* UAFE, both are filed and nothing else is
C29_Witness ==
    /\ GAnswered("consult_global")
    /\ greq.usar = << N_UAFE, N_juriscopio >>
    /\ Len(gcalls) = 3
    /\ gcalls[1].fuente = "juriscopio"
    /\ gcalls[3].fuente = "uafe"
    /\ DOMAIN gresp.fuentes = { "juriscopio_casos", "juriscopio_sentencias", "uafe" }

(***************************************************************************)
(* C30                                                                     *)
(***************************************************************************)
ExportReturned == export.pc = "done" /\ Truthy(ExportIdJuicio(export.payload))

\* the first incident having the three identifiers, else the first incident
Chosen(incidencias) ==
    IF \E i \in 1..Len(incidencias) : HasRequired(incidencias[i])
    THEN incidencias[CHOOSE i \in 1..Len(incidencias) :
                         /\ HasRequired(incidencias[i])
                         /\ \A j \in 1..(i - 1) : ~HasRequired(incidencias[j])]
    ELSE incidencias[1]

\* the error line of a failed upstream call
FailureLine(call) ==
    CASE call = "informacion" -> "No se pudo obtener informacion del juicio"
      [] call = "incidencias" -> "No se pudieron obtener incidencias"
      [] call = "actuaciones" -> "No se pudieron obtener actuaciones"

\* the payload's max_actuaciones raised to at least 1, 200 when the payload
\* has none or it is no number
ClampedMaxActuaciones(payload) ==
    IF Get(payload, "max_actuaciones").t = "int"
    THEN Max(1, Get(payload, "max_actuaciones").i)
    ELSE DefaultMaxActuaciones

ActuacionesRequested == \E i \in 1..Len(export.requests) : export.requests[i] = "actuaciones"

\* C30: a call of exportar_pdf_satje with a non-empty id_juicio returns a PDF
\* whichever upstream calls raise; the actuaciones were requested only for a
\* chosen incident (the first having the three identifiers, else the first)
\* that has the three identifiers; every failed upstream call has its line
\* among the PDF's errors; and the PDF holds at most max_actuaciones
\* actuaciones, a max_actuaciones below 1 counting as 1.
C30_PdfWhateverFails ==
    ExportReturned =>
        /\ export.out.kind = "pdf"
        /\ ActuacionesRequested =>
              /\ export.incidencias # <<>>
              /\ HasRequired(Chosen(export.incidencias))
              /\ \A i \in 1..Len(RequiredKeys) :
                    export.sent[RequiredKeys[i]] = Get(Chosen(export.incidencias), RequiredKeys[i])
        /\ \A call \in export.failed :
              \E i \in 1..Len(export.out.errores) : export.out.errores[i] = FailureLine(call)
        /\ Len(export.out.written) <= ClampedMaxActuaciones(export.payload)

=============================================================================
